---- MODULE Spec2Model ----
(***************************************************************************)
(* Model of the UV index dashboard services:                               *)
(*   - the caching getUserLocation (location resolver with a 5 s bounding  *)
(*     timer and a fallback coordinate),                                   *)
(*   - the caching getMeteomaticsUVIndex adapter (two parallel requests,   *)
(*     a single-entry 5 minute cache keyed by coordinate),                 *)
(*   - the services without module state: getUVIndexData (free UV index    *)
(*     API), getUVIndex (OpenWeatherMap), getCopernicusUVIndex (WAQI),     *)
(*   - the display components over those services, whose getUserLocation   *)
(*     rejects on failure,                                                 *)
(*   - getUVSeverity and its copies in the components.                     *)
(* Coordinates are fixed-point numbers in units of 1e-4 degree; times are  *)
(* milliseconds as returned by Date.now().  A JavaScript value that may be *)
(* null/undefined is a sequence of length 0 (absent) or 1 (present).       *)
(***************************************************************************)
EXTENDS Integers, Sequences, FiniteSets, TLC

VARIABLES
    \* ---- location resolver (module state of the caching service) ----
    geoSupported,     \* navigator.geolocation is available (environment)
    cachedLocation,   \* let cachedLocation: LocationData | null
    locationPromise,  \* let locationPromise: Promise<LocationData> | null
    promises,         \* every promise handed out by getUserLocation
    geoReqs,          \* getCurrentPosition invocations with their timers
    locCalls,         \* history: one record per getUserLocation call
    events,           \* history: number of callbacks/timers run so far
    \* ---- Meteomatics adapter (module state of the caching service) ----
    credentials,      \* USERNAME and PASSWORD are both non-empty (environment)
    now,              \* Date.now(), milliseconds
    ticks,            \* number of clock advances so far
    uvDataCache,      \* let uvDataCache: CacheItem | null
    locationCache,    \* let locationCache: LocationData | null
    calls,            \* the getMeteomaticsUVIndex invocations, one per slot
    callBudget,       \* number of invocations the callers may still make
    cacheSrc,         \* history: the coordinate the cached entry's requests
                      \* were addressed at
    stored,           \* history: per coordinate, the entry last stored for it
    \* ---- the services without module state, and the components ----
    ad,               \* one invocation of getUVIndexData, getUVIndex or
                      \* getCopernicusUVIndex
    sev,              \* getUVSeverity: the argument and what each copy returned
    comp,             \* one mounted display component
    mdisp,            \* the mounted MeteomaticsUVDisplay and its fetchData runs
    cityCalls         \* the calls of getCityCoordinates made so far

locVars == <<geoSupported, cachedLocation, locationPromise, promises,
             geoReqs, locCalls, events>>

meteoVars == <<credentials, now, ticks, uvDataCache, locationCache, calls,
               callBudget, cacheSrc, stored>>

auxVars == <<ad, sev, comp, mdisp, cityCalls>>

vars == <<locVars, meteoVars, auxVars>>

----------------------------------------------------------------------------
(* Bounds *)
MaxLocCalls == 5

\* invocations of getMeteomaticsUVIndex in the single-call specification
MaxFetchCalls == 1

\* invocations of getMeteomaticsUVIndex in the cache specification
MaxCacheCalls == 3

\* clock advances
MaxTicks == 2

\* longest forecast series the upstream returns
MaxSeries == 2

\* invocations of getMeteomaticsUVIndex in the concurrent specification
MaxConcCalls == 2

\* greatest UV index given to getUVSeverity, in units of 0.001
MaxUvMilli == 12000

----------------------------------------------------------------------------
(* Coordinates *)

\* const DEFAULT_LOCATION = { lat: 59.3293, lng: 18.0686 }
DEFAULT_LOCATION == [lat |-> 593293, lng |-> 180686]

\* Positions the device may report: Gothenburg, and a device that really
\* is at the reference city.
DevicePositions == {[lat |-> 577089, lng |-> 119746], DEFAULT_LOCATION}

\* GeolocationPositionError.code
GeoErrorCodes == {1, 2, 3}

----------------------------------------------------------------------------
(* Promises *)

PendingPromise == [state |-> "pending", value |-> <<>>]

FulfilledPromise(v) == [state |-> "fulfilled", value |-> <<v>>]

RejectedPromise == [state |-> "rejected", value |-> <<>>]

\* resolve(v): settles a pending promise, no-op on a settled one
Resolve(ps, pid, v) ==
    IF ps[pid].state = "pending"
    THEN [ps EXCEPT ![pid] = FulfilledPromise(v)]
    ELSE ps

\* reject(e): settles a pending promise, no-op on a settled one
Reject(ps, pid) ==
    IF ps[pid].state = "pending"
    THEN [ps EXCEPT ![pid] = RejectedPromise]
    ELSE ps

\* clearTimeout(timeoutId): cancels a timer that has not fired yet
ClearTimeout(t) == IF t = "armed" THEN "cleared" ELSE t

\* some bounding timer has already fired before either of its callbacks
TimedOutFirst == \E r \in 1..Len(geoReqs) : geoReqs[r].first = "timer"

\* the promises that are still pending
PendingPids == {p \in 1..Len(promises) : promises[p].state = "pending"}

\* history record of one getUserLocation call: the promise it returned,
\* the number of events before it, the promises pending at the call
LocCall(pid) ==
    [pid |-> pid, ev |-> events, pendingAtCall |-> PendingPids,
     afterTimeout |-> TimedOutFirst]

----------------------------------------------------------------------------
(* getUserLocation *)

\* Mutant: the in-flight promise is not reused.
GetUserLocationNoShare ==
    /\ Len(locCalls) < MaxLocCalls
    /\ LET pid == Len(promises) + 1 IN
       IF cachedLocation # <<>>
       THEN /\ promises' = Append(promises, FulfilledPromise(cachedLocation[1]))
            /\ locCalls' = Append(locCalls, LocCall(pid))
            /\ UNCHANGED <<cachedLocation, locationPromise, geoReqs>>
       ELSE IF ~geoSupported
       THEN /\ cachedLocation' = <<DEFAULT_LOCATION>>
            /\ promises' = Append(promises, FulfilledPromise(DEFAULT_LOCATION))
            /\ locationPromise' = <<pid>>
            /\ locCalls' = Append(locCalls, LocCall(pid))
            /\ UNCHANGED geoReqs
       ELSE /\ promises' = Append(promises, PendingPromise)
            /\ geoReqs' = Append(geoReqs,
                  [pid |-> pid, timer |-> "armed", cb |-> "pending",
                   first |-> "none", reported |-> <<>>])
            /\ locationPromise' = <<pid>>
            /\ locCalls' = Append(locCalls, LocCall(pid))
            /\ UNCHANGED cachedLocation
    /\ UNCHANGED <<auxVars, meteoVars, geoSupported, events>>

\* getUserLocation as called from a caller's step: the changes to the state
\* of the resolver
GetUserLocationCall ==
    /\ Len(locCalls) < MaxLocCalls
    /\ LET pid == Len(promises) + 1 IN
       IF cachedLocation # <<>>
       THEN \* return Promise.resolve(cachedLocation)
            /\ promises' = Append(promises, FulfilledPromise(cachedLocation[1]))
            /\ locCalls' = Append(locCalls, LocCall(pid))
            /\ UNCHANGED <<cachedLocation, locationPromise, geoReqs>>
       ELSE IF locationPromise # <<>>
       THEN \* return locationPromise
            /\ locCalls' = Append(locCalls, LocCall(locationPromise[1]))
            /\ UNCHANGED <<cachedLocation, locationPromise, promises, geoReqs>>
       ELSE IF ~geoSupported
       THEN \* executor resolves at once; the promise is then stored
            /\ cachedLocation' = <<DEFAULT_LOCATION>>
            /\ promises' = Append(promises, FulfilledPromise(DEFAULT_LOCATION))
            /\ locationPromise' = <<pid>>
            /\ locCalls' = Append(locCalls, LocCall(pid))
            /\ UNCHANGED geoReqs
       ELSE \* setTimeout(..., 5000); navigator.geolocation.getCurrentPosition
            /\ promises' = Append(promises, PendingPromise)
            /\ geoReqs' = Append(geoReqs,
                  [pid |-> pid, timer |-> "armed", cb |-> "pending",
                   first |-> "none", reported |-> <<>>])
            /\ locationPromise' = <<pid>>
            /\ locCalls' = Append(locCalls, LocCall(pid))
            /\ UNCHANGED cachedLocation
    /\ UNCHANGED <<geoSupported, events>>

\* getUserLocation called by itself
GetUserLocation == GetUserLocationCall /\ UNCHANGED <<auxVars, meteoVars>>

First(req, what) == IF req.first = "none" THEN what ELSE req.first

\* Mutant: the bounding timer fires without resolving.
TimerFireNoResolve(r) ==
    /\ geoReqs[r].timer = "armed"
    /\ geoReqs' = [geoReqs EXCEPT ![r].timer = "fired",
                                  ![r].first = First(geoReqs[r], "timer")]
    /\ events' = events + 1
    /\ UNCHANGED <<auxVars, meteoVars, geoSupported, locCalls, cachedLocation,
                   promises, locationPromise>>

\* the setTimeout callback (5 second bounding timer)
TimerFire(r) ==
    /\ geoReqs[r].timer = "armed"
    /\ cachedLocation' = <<DEFAULT_LOCATION>>
    /\ promises' = Resolve(promises, geoReqs[r].pid, DEFAULT_LOCATION)
    /\ locationPromise' = <<>>
    /\ geoReqs' = [geoReqs EXCEPT ![r].timer = "fired",
                                  ![r].first = First(geoReqs[r], "timer")]
    /\ events' = events + 1
    /\ UNCHANGED <<auxVars, meteoVars, geoSupported, locCalls>>

\* the getCurrentPosition success callback
GeoSuccess(r, pos) ==
    /\ geoReqs[r].cb = "pending"
    /\ cachedLocation' = <<pos>>
    /\ promises' = Resolve(promises, geoReqs[r].pid, pos)
    /\ locationPromise' = <<>>
    /\ geoReqs' = [geoReqs EXCEPT ![r].timer = ClearTimeout(geoReqs[r].timer),
                                  ![r].cb = "success",
                                  ![r].first = First(geoReqs[r], "success"),
                                  ![r].reported = <<pos>>]
    /\ events' = events + 1
    /\ UNCHANGED <<auxVars, meteoVars, geoSupported, locCalls>>

\* Mutant: the error callback rejects (as the non-caching service does).
GeoErrorRejects(r, code) ==
    /\ geoReqs[r].cb = "pending"
    /\ promises' = Reject(promises, geoReqs[r].pid)
    /\ locationPromise' = <<>>
    /\ geoReqs' = [geoReqs EXCEPT ![r].timer = ClearTimeout(geoReqs[r].timer),
                                  ![r].cb = "error",
                                  ![r].first = First(geoReqs[r], "error")]
    /\ events' = events + 1
    /\ UNCHANGED <<auxVars, meteoVars, geoSupported, locCalls, cachedLocation>>

\* the getCurrentPosition error callback
GeoError(r, code) ==
    /\ geoReqs[r].cb = "pending"
    /\ cachedLocation' = <<DEFAULT_LOCATION>>
    /\ promises' = Resolve(promises, geoReqs[r].pid, DEFAULT_LOCATION)
    /\ locationPromise' = <<>>
    /\ geoReqs' = [geoReqs EXCEPT ![r].timer = ClearTimeout(geoReqs[r].timer),
                                  ![r].cb = "error",
                                  ![r].first = First(geoReqs[r], "error")]
    /\ events' = events + 1
    /\ UNCHANGED <<auxVars, meteoVars, geoSupported, locCalls>>

----------------------------------------------------------------------------
(* Upstream responses *)

\* const CACHE_DURATION = 5 * 60 * 1000
CACHE_DURATION == 5 * 60 * 1000

\* coordinates the callers ask for
CallLocations ==
    DevicePositions \cup {[lat |-> DEFAULT_LOCATION.lat, lng |-> 119746]}

\* UV values (value leaves of the upstream series)
UvValues == {2, 5}

\* dates of the upstream series, seconds since the epoch; entry i of a
\* series is dated Hour(i)
Hour(i) == 3600 * i

\* one element of data[0].coordinates[0].dates; a leaf may be missing
DateEntry(d, v) == [date |-> d, value |-> v]

\* the value of data[0].coordinates[0].dates: undefined, a truthy value that
\* is not an array, or an array of entries
DatesUndefined == [kind |-> "undefined", items |-> <<>>]

DatesObject == [kind |-> "object", items |-> <<>>]

DatesList(s) == [kind |-> "list", items |-> s]

\* A response body.  text: whether response.json() can parse it.  links: how
\* many leading links of body, body.data, body.data[0], .coordinates,
\* .coordinates[0] are truthy.  dates: the value of .dates below them.
GarbageBody == [text |-> "garbage", links |-> 0, dates |-> DatesUndefined]

NullBody == [text |-> "json", links |-> 0, dates |-> DatesUndefined]

EmptyDataBody == [text |-> "json", links |-> 2, dates |-> DatesUndefined]

DatesBody(d) == [text |-> "json", links |-> 5, dates |-> d]

\* the series 1..n with values drawn from UvValues
Series ==
    UNION {{[i \in 1..n |-> DateEntry(<<Hour(i)>>, <<f[i]>>)] :
               f \in [1..n -> UvValues]} : n \in 0..MaxSeries}

PrimaryBodies ==
    {GarbageBody, NullBody, EmptyDataBody, DatesBody(DatesUndefined),
     DatesBody(DatesList(<<>>)),
     DatesBody(DatesList(<<DateEntry(<<Hour(1)>>, <<4>>)>>)),
     DatesBody(DatesList(<<DateEntry(<<Hour(1)>>, <<>>)>>)),
     DatesBody(DatesList(<<DateEntry(<<>>, <<4>>)>>))}

\* new Date(now.getTime() + 24 * 60 * 60 * 1000): the forecast is asked
\* for the 24 hours from now on, in steps of PT1H
ForecastWindowHours == 24

\* the series of an upstream that answers with one entry for every full hour
\* of the window, both of its ends included
WindowSeries ==
    [i \in 1..(ForecastWindowHours + 1) |->
        DateEntry(<<Hour(i - 1)>>, <<IF i = 13 THEN 5 ELSE 2>>)]

ForecastBodies ==
    {GarbageBody, NullBody, DatesBody(DatesObject),
     DatesBody(DatesList(WindowSeries))}
        \cup {DatesBody(DatesList(s)) : s \in Series}

\* the state of one fetch(): in flight, resolved with a Response, or rejected
InFlight == [st |-> "inflight", status |-> 0, body |-> GarbageBody]

Rejected == [st |-> "rejected", status |-> 0, body |-> GarbageBody]

Resolved(status, body) == [st |-> "resolved", status |-> status, body |-> body]

\* Response.ok
Ok(resp) == resp.status >= 200 /\ resp.status <= 299

PrimaryResponses ==
    {Rejected} \cup {Resolved(200, b) : b \in PrimaryBodies}
        \cup {Resolved(500, b) : b \in {GarbageBody,
                 DatesBody(DatesList(<<DateEntry(<<Hour(1)>>, <<4>>)>>))}}

ForecastResponses ==
    {Rejected} \cup {Resolved(200, b) : b \in ForecastBodies}
        \cup {Resolved(500, b) : b \in {GarbageBody,
                 DatesBody(DatesList(<<DateEntry(<<Hour(1)>>, <<5>>)>>))}}

\* the responses of the cache specification
CachePrimaryResponses ==
    {Rejected, Resolved(500, GarbageBody), Resolved(200, GarbageBody),
     Resolved(200, DatesBody(DatesList(<<DateEntry(<<Hour(1)>>, <<4>>)>>)))}

CacheForecastResponses ==
    {Resolved(500, GarbageBody),
     Resolved(200, DatesBody(DatesList(<<DateEntry(<<Hour(1)>>, <<5>>)>>)))}

----------------------------------------------------------------------------
(* Normalisation *)

\* now.toISOString().split(".")[0] + "Z": the time cut to whole seconds
FormatDate(t) == t \div 1000

\* a > b in JavaScript: false when either side is undefined
Gt(a, b) == a # <<>> /\ b # <<>> /\ a[1] > b[1]

\* dates.map(item => ({time: item.date, uvIndex: item.value}))
MapForecast(items) ==
    [i \in 1..Len(items) |-> [time |-> items[i].date, uvIndex |-> items[i].value]]

\* hourlyForecast.reduce((prev, current) =>
\*     prev.uvIndex > current.uvIndex ? prev : current)
RECURSIVE ReduceMax(_, _, _)
ReduceMax(hf, prev, i) ==
    IF i > Len(hf) THEN prev
    ELSE ReduceMax(hf, IF Gt(prev.uvIndex, hf[i].uvIndex) THEN prev ELSE hf[i],
                   i + 1)

MaxUvItem(hf) == ReduceMax(hf, hf[1], 2)

\* forecastData && forecastData.data && ... && ....coordinates[0].dates
HasDates(body) == body.links = 5 /\ body.dates.kind # "undefined"

\* currentData && ... && currentData.data[0].coordinates[0].dates[0]
CurrentEntry(body) ==
    IF HasDates(body) /\ body.dates.kind = "list" /\ Len(body.dates.items) > 0
    THEN <<body.dates.items[1]>>
    ELSE <<>>

\* Mutant: a missing current value is left undefined instead of 0.
AssembleNoDefault(body, hf, t0) ==
    LET e == CurrentEntry(body) IN
    [uvIndex        |-> IF e # <<>> THEN e[1].value ELSE <<>>,
     timestamp      |-> IF e # <<>> THEN e[1].date ELSE <<FormatDate(t0)>>,
     maxUvIndex     |-> IF hf # <<>> /\ Len(hf[1]) > 0
                        THEN MaxUvItem(hf[1]).uvIndex ELSE <<>>,
     maxUvTime      |-> IF hf # <<>> /\ Len(hf[1]) > 0
                        THEN MaxUvItem(hf[1]).time ELSE <<>>,
     hourlyForecast |-> hf,
     source         |-> "Meteomatics Professional Weather Data"]

\* Mutant: the maximum is started at 0 and at the request time, as the
\* current value is.
AssembleZeroMax(body, hf, t0) ==
    LET e == CurrentEntry(body) IN
    [uvIndex        |-> IF e # <<>> THEN e[1].value ELSE <<0>>,
     timestamp      |-> IF e # <<>> THEN e[1].date ELSE <<FormatDate(t0)>>,
     maxUvIndex     |-> IF hf # <<>> /\ Len(hf[1]) > 0
                        THEN MaxUvItem(hf[1]).uvIndex ELSE <<0>>,
     maxUvTime      |-> IF hf # <<>> /\ Len(hf[1]) > 0
                        THEN MaxUvItem(hf[1]).time ELSE <<FormatDate(t0)>>,
     hourlyForecast |-> hf,
     source         |-> "Meteomatics Professional Weather Data"]

\* the returned object; hf is the hourlyForecast (absent or a list)
Assemble(body, hf, t0) ==
    LET e == CurrentEntry(body) IN
    [uvIndex        |-> IF e # <<>> THEN e[1].value ELSE <<0>>,
     timestamp      |-> IF e # <<>> THEN e[1].date ELSE <<FormatDate(t0)>>,
     maxUvIndex     |-> IF hf # <<>> /\ Len(hf[1]) > 0
                        THEN MaxUvItem(hf[1]).uvIndex ELSE <<>>,
     maxUvTime      |-> IF hf # <<>> /\ Len(hf[1]) > 0
                        THEN MaxUvItem(hf[1]).time ELSE <<>>,
     hourlyForecast |-> hf,
     source         |-> "Meteomatics Professional Weather Data"]

----------------------------------------------------------------------------
(* getMeteomaticsUVIndex *)

IdleCall ==
    [pc |-> "idle", loc |-> DEFAULT_LOCATION, t0 |-> 0, reqLoc |-> <<>>,
     cur |-> InFlight, fc |-> InFlight, issued |-> 0, hit |-> FALSE,
     result |-> <<>>,
     seen |-> [entry |-> <<>>, key |-> <<>>, src |-> <<>>, prior |-> <<>>,
               pending |-> {}]]

\* history: what a call starting now for loc finds: the cached entry, its
\* key, the coordinate it was computed from, the entry last stored for loc,
\* and the invocations for loc that are awaiting their responses
Seen(loc) ==
    [entry |-> uvDataCache, key |-> locationCache, src |-> cacheSrc,
     prior |-> stored[loc],
     pending |-> {c \in DOMAIN calls :
                     calls[c].pc \notin {"idle", "done"} /\ calls[c].loc = loc}]

\* Mutant: an entry exactly CACHE_DURATION old is still served.
CacheValidInclusive(loc, t) ==
    /\ uvDataCache # <<>>
    /\ t - uvDataCache[1].timestamp <= CACHE_DURATION
    /\ locationCache # <<>>
    /\ locationCache[1].lat = loc.lat
    /\ locationCache[1].lng = loc.lng

\* Mutant: the entry expires one millisecond early.
CacheValidEarly(loc, t) ==
    /\ uvDataCache # <<>>
    /\ t - uvDataCache[1].timestamp < CACHE_DURATION - 1
    /\ locationCache # <<>>
    /\ locationCache[1].lat = loc.lat
    /\ locationCache[1].lng = loc.lng

\* the cache check at the start of the call
CacheValid(loc, t) ==
    /\ uvDataCache # <<>>
    /\ t - uvDataCache[1].timestamp < CACHE_DURATION
    /\ locationCache # <<>>
    /\ locationCache[1].lat = loc.lat
    /\ locationCache[1].lng = loc.lng

\* the call up to its first await: cache check, credentials check, and the
\* two fetch() calls handed to Promise.all
CallStep(c, loc) ==
    /\ callBudget > 0
    /\ calls[c].pc \in {"idle", "done"}
    /\ callBudget' = callBudget - 1
    /\ IF CacheValid(loc, now)
       THEN calls' = [calls EXCEPT ![c] =
                [IdleCall EXCEPT !.pc = "done", !.loc = loc, !.t0 = now,
                                 !.seen = Seen(loc),
                                 !.hit = TRUE,
                                 !.result = <<uvDataCache[1].data>>]]
       ELSE IF ~credentials
       THEN calls' = [calls EXCEPT ![c] =
                [IdleCall EXCEPT !.pc = "done", !.loc = loc, !.t0 = now,
                                 !.seen = Seen(loc)]]
       ELSE calls' = [calls EXCEPT ![c] =
                [IdleCall EXCEPT !.pc = "awaitAll", !.loc = loc, !.t0 = now,
                                 !.seen = Seen(loc),
                                 !.reqLoc = <<loc>>, !.issued = 2]]
    /\ UNCHANGED <<credentials, now, ticks, uvDataCache, locationCache, cacheSrc,
                   stored>>

\* getMeteomaticsUVIndex called by itself
Call(c, loc) == CallStep(c, loc) /\ UNCHANGED <<auxVars, locVars>>

\* the current-value fetch() settles
CurrentSettles(c, resp) ==
    /\ calls[c].pc = "awaitAll"
    /\ calls[c].cur.st = "inflight"
    /\ calls' = [calls EXCEPT ![c].cur = resp]
    /\ UNCHANGED <<auxVars, locVars, credentials, now, ticks, uvDataCache, locationCache,
                   callBudget, cacheSrc, stored>>

\* the forecast fetch() settles
ForecastSettles(c, resp) ==
    /\ calls[c].pc = "awaitAll"
    /\ calls[c].fc.st = "inflight"
    /\ calls' = [calls EXCEPT ![c].fc = resp]
    /\ UNCHANGED <<auxVars, locVars, credentials, now, ticks, uvDataCache, locationCache,
                   callBudget, cacheSrc, stored>>

\* Mutant: a failure drops the cache.
FailClearsCache(c) ==
    /\ calls' = [calls EXCEPT ![c].pc = "done", ![c].result = <<>>]
    /\ uvDataCache' = <<>>
    /\ locationCache' = <<>>
    /\ UNCHANGED <<auxVars, locVars, credentials, now, ticks, callBudget, cacheSrc, stored>>

\* catch (error) { console.error(...); return null; }
Fail(c) ==
    /\ calls' = [calls EXCEPT ![c].pc = "done", ![c].result = <<>>]
    /\ UNCHANGED <<auxVars, locVars, credentials, now, ticks, uvDataCache, locationCache,
                   callBudget, cacheSrc, stored>>

\* Mutant: the key of the cache is written only while it is empty.
FinishKeepsKey(c, hf) ==
    LET result == Assemble(calls[c].cur.body, hf, calls[c].t0) IN
    /\ uvDataCache' = <<[data |-> result, timestamp |-> now]>>
    /\ locationCache' = IF locationCache = <<>> THEN <<calls[c].loc>>
                        ELSE locationCache
    /\ cacheSrc' = calls[c].reqLoc
    /\ stored' = [stored EXCEPT ![calls[c].loc] =
                      <<[data |-> result, timestamp |-> now]>>]
    /\ calls' = [calls EXCEPT ![c].pc = "done", ![c].result = <<result>>]
    /\ UNCHANGED <<auxVars, locVars, credentials, now, ticks, callBudget>>

\* from "Extract current UV index" to "return result": assemble the record,
\* replace the cache, return
Finish(c, hf) ==
    LET result == Assemble(calls[c].cur.body, hf, calls[c].t0) IN
    /\ uvDataCache' = <<[data |-> result, timestamp |-> now]>>
    /\ locationCache' = <<calls[c].loc>>
    /\ cacheSrc' = calls[c].reqLoc
    /\ stored' = [stored EXCEPT ![calls[c].loc] =
                      <<[data |-> result, timestamp |-> now]>>]
    /\ calls' = [calls EXCEPT ![c].pc = "done", ![c].result = <<result>>]
    /\ UNCHANGED <<auxVars, locVars, credentials, now, ticks, callBudget>>

\* Mutant: the status of the current-value response is not checked.
AllSettledNoStatusCheck(c) ==
    /\ calls[c].pc = "awaitAll"
    /\ \/ /\ calls[c].cur.st = "rejected" \/ calls[c].fc.st = "rejected"
          /\ Fail(c)
       \/ /\ calls[c].cur.st = "resolved" /\ calls[c].fc.st = "resolved"
          /\ calls' = [calls EXCEPT ![c].pc = "awaitCurrentJson"]
          /\ UNCHANGED <<auxVars, locVars, credentials, now, ticks, uvDataCache,
                         locationCache, callBudget, cacheSrc, stored>>

\* await Promise.all([...]) completes: it rejects as soon as one fetch has
\* rejected, and fulfils when both have resolved; then the status check
AllSettled(c) ==
    /\ calls[c].pc = "awaitAll"
    /\ \/ /\ calls[c].cur.st = "rejected" \/ calls[c].fc.st = "rejected"
          /\ Fail(c)
       \/ /\ calls[c].cur.st = "resolved" /\ calls[c].fc.st = "resolved"
          /\ IF ~Ok(calls[c].cur)
             THEN Fail(c)
             ELSE /\ calls' = [calls EXCEPT ![c].pc = "awaitCurrentJson"]
                  /\ UNCHANGED <<auxVars, locVars, credentials, now, ticks, uvDataCache,
                                 locationCache, callBudget, cacheSrc, stored>>

\* Mutant: the status of the forecast response is not checked.
CurrentJsonNoForecastCheck(c) ==
    /\ calls[c].pc = "awaitCurrentJson"
    /\ IF calls[c].cur.body.text # "json"
       THEN Fail(c)
       ELSE /\ calls' = [calls EXCEPT ![c].pc = "awaitForecastJson"]
            /\ UNCHANGED <<auxVars, locVars, credentials, now, ticks, uvDataCache,
                           locationCache, callBudget, cacheSrc, stored>>

\* await currentResponse.json() completes; then if (forecastResponse.ok)
CurrentJson(c) ==
    /\ calls[c].pc = "awaitCurrentJson"
    /\ IF calls[c].cur.body.text # "json"
       THEN Fail(c)
       ELSE IF Ok(calls[c].fc)
       THEN /\ calls' = [calls EXCEPT ![c].pc = "awaitForecastJson"]
            /\ UNCHANGED <<auxVars, locVars, credentials, now, ticks, uvDataCache,
                           locationCache, callBudget, cacheSrc, stored>>
       ELSE Finish(c, <<>>)

\* await forecastResponse.json() completes; the series is mapped
ForecastJson(c) ==
    /\ calls[c].pc = "awaitForecastJson"
    /\ LET body == calls[c].fc.body IN
       IF body.text # "json"
       THEN Fail(c)
       ELSE IF ~HasDates(body)
       THEN Finish(c, <<>>)
       ELSE IF body.dates.kind # "list"
       THEN Fail(c)      \* dates.map is not a function
       ELSE Finish(c, <<MapForecast(body.dates.items)>>)

\* time passes
Tick(d) ==
    /\ ticks < MaxTicks
    /\ ticks' = ticks + 1
    /\ now' = now + d
    /\ UNCHANGED <<auxVars, locVars, credentials, uvDataCache, locationCache, calls,
                   callBudget, cacheSrc, stored>>

TickSteps == {1, CACHE_DURATION - 1}

\* the concurrent specification: two callers, two coordinates, and current
\* values that tell the responses of one call from those of another
ConcSlots == {1, 2}

ConcLocations == DevicePositions

ConcPrimaryResponses ==
    {Resolved(500, GarbageBody),
     Resolved(200, DatesBody(DatesList(<<DateEntry(<<Hour(1)>>, <<4>>)>>))),
     Resolved(200, DatesBody(DatesList(<<DateEntry(<<Hour(1)>>, <<7>>)>>)))}

ConcForecastResponses ==
    {Resolved(200, DatesBody(DatesList(<<DateEntry(<<Hour(1)>>, <<5>>)>>)))}

\* the single-call specification: one caller coordinate, one clock step
FetchLocations == {DEFAULT_LOCATION}

FetchTickSteps == {CACHE_DURATION - 1}

----------------------------------------------------------------------------
(* The services without module state: one invocation at a time *)

IdleAd ==
    [kind |-> "none", pc |-> "idle", loc |-> DEFAULT_LOCATION,
     resp |-> <<>>, detail |-> <<>>, outcome |-> "pending", result |-> <<>>]

\* an async function returns v: its promise is fulfilled with v
AdReturn(v) ==
    /\ ad' = [ad EXCEPT !.pc = "done", !.outcome = "fulfilled", !.result = v]
    /\ UNCHANGED <<locVars, meteoVars, sev, comp, mdisp, cityCalls>>

\* an async function starts: everything up to its first await fetch(...)
AdStart(kind, loc) ==
    /\ ad.pc = "idle"
    /\ ad' = [IdleAd EXCEPT !.kind = kind, !.pc = "awaitFetch", !.loc = loc]
    /\ UNCHANGED <<locVars, meteoVars, sev, comp, mdisp, cityCalls>>

----------------------------------------------------------------------------
(* getUVIndexData: the free UV index API *)

\* one element of data.forecast, and data.now; a leaf may be missing
UviEntry(t, v) == [time |-> t, uvi |-> v]

\* the series 1..n of data.forecast with values drawn from UvValues
UviSeries ==
    UNION {{[i \in 1..n |-> UviEntry(<<Hour(i)>>, <<f[i]>>)] :
               f \in [1..n -> UvValues]} : n \in 0..MaxSeries}

\* A body of the free API.  text: whether response.json() can parse it.
\* null: the parsed value is null.  ok, now, forecast, latitude, longitude:
\* the fields of data; forecast is undefined or an array.
FreeGarbage ==
    [text |-> "garbage", null |-> TRUE, ok |-> FALSE, now |-> <<>>,
     forecast |-> DatesUndefined, latitude |-> <<>>, longitude |-> <<>>]

FreeNull ==
    [text |-> "json", null |-> TRUE, ok |-> FALSE, now |-> <<>>,
     forecast |-> DatesUndefined, latitude |-> <<>>, longitude |-> <<>>]

FreeBody(ok, nw, fc) ==
    [text |-> "json", null |-> FALSE, ok |-> ok, now |-> nw, forecast |-> fc,
     latitude |-> <<DEFAULT_LOCATION.lat>>, longitude |-> <<DEFAULT_LOCATION.lng>>]

FreeNow == <<UviEntry(<<Hour(0)>>, <<3>>)>>

FreeBodies ==
    {FreeGarbage, FreeNull,
     FreeBody(FALSE, FreeNow, DatesList(<<>>)),
     FreeBody(TRUE, <<>>, DatesList(<<>>)),
     FreeBody(TRUE, FreeNow, DatesUndefined)}
        \cup {FreeBody(TRUE, FreeNow, DatesList(s)) : s \in UviSeries}

FreeResponses ==
    {Rejected, Resolved(500, FreeGarbage)}
        \cup {Resolved(200, b) : b \in FreeBodies}

\* data.forecast.map(item => ({time: item.time, uvIndex: item.uvi}))
MapUvi(items) ==
    [i \in 1..Len(items) |-> [time |-> items[i].time, uvIndex |-> items[i].uvi]]

\* hourlyForecast.reduce((prev, current) =>
\*     prev.uvIndex > current.uvIndex ? prev : current)
RECURSIVE ReduceMaxUvi(_, _, _)
ReduceMaxUvi(hf, prev, i) ==
    IF i > Len(hf) THEN prev
    ELSE ReduceMaxUvi(hf, IF Gt(prev.uvIndex, hf[i].uvIndex) THEN prev ELSE hf[i],
                      i + 1)

\* Mutant: the first entry is taken for the maximum.
MaxUvEntryFirst(hf) == hf[1]

\* the reduce without an initial value starts from the first entry
MaxUvEntry(hf) == ReduceMaxUvi(hf, hf[1], 2)

\* the returned object
UVIndexDataOf(body) ==
    LET hf == MapUvi(body.forecast.items) IN
    [uvIndex        |-> body.now[1].uvi,
     timestamp      |-> body.now[1].time,
     maxUvIndex     |-> IF Len(hf) > 0 THEN MaxUvEntry(hf).uvIndex ELSE <<>>,
     maxUvTime      |-> IF Len(hf) > 0 THEN MaxUvEntry(hf).time ELSE <<>>,
     hourlyForecast |-> <<hf>>,
     source         |-> "Current UV Index API",
     latitude       |-> body.latitude,
     longitude      |-> body.longitude]

\* Mutant: the error is thrown again.
UVIndexDataCatchRethrows ==
    /\ ad' = [ad EXCEPT !.pc = "done", !.outcome = "rejected"]
    /\ UNCHANGED <<locVars, meteoVars, sev, comp, mdisp, cityCalls>>

\* catch (error) { console.error(...); return null; }
UVIndexDataCatch == AdReturn(<<>>)

\* the call up to await fetch(url, ...)
GetUVIndexData(loc) == AdStart("getUVIndexData", loc)

\* await fetch(...) completes; then if (!response.ok) throw
UVIndexDataFetched(resp) ==
    /\ ad.kind = "getUVIndexData"
    /\ ad.pc = "awaitFetch"
    /\ IF resp.st = "rejected" \/ ~Ok(resp)
       THEN UVIndexDataCatch
       ELSE /\ ad' = [ad EXCEPT !.pc = "awaitJson", !.resp = <<resp>>]
            /\ UNCHANGED <<locVars, meteoVars, sev, comp, mdisp, cityCalls>>

\* await response.json() completes; the rest of the function
UVIndexDataJson ==
    /\ ad.kind = "getUVIndexData"
    /\ ad.pc = "awaitJson"
    /\ LET body == ad.resp[1].body IN
       IF body.text # "json"
       THEN UVIndexDataCatch
       ELSE IF body.null \/ ~body.ok
       THEN UVIndexDataCatch      \* data.ok of null, or the thrown Error
       ELSE IF body.forecast.kind # "list"
       THEN UVIndexDataCatch      \* data.forecast.map of undefined
       ELSE IF body.now = <<>>
       THEN UVIndexDataCatch      \* data.now.uvi of undefined
       ELSE AdReturn(<<UVIndexDataOf(body)>>)

----------------------------------------------------------------------------
(* getUVIndex: the OpenWeatherMap service *)

\* new Date(ms).toISOString(): the instant, to the millisecond
ToISOString(ms) == [iso |-> ms]

\* data.current and an element of data.daily; a leaf may be missing
OwmEntry(dt, uvi) == [dt |-> dt, uvi |-> uvi]

\* A body of OpenWeatherMap.  current: data.current.  daily: data.daily
\* (undefined, or an array).
OwmGarbage ==
    [text |-> "garbage", null |-> TRUE, current |-> <<>>, daily |-> DatesUndefined]

OwmNull ==
    [text |-> "json", null |-> TRUE, current |-> <<>>, daily |-> DatesUndefined]

OwmBody(cur, daily) ==
    [text |-> "json", null |-> FALSE, current |-> cur, daily |-> daily]

OwmCurrent == <<OwmEntry(<<Hour(1)>>, <<3>>)>>

OwmBodies ==
    {OwmGarbage, OwmNull,
     OwmBody(<<>>, DatesUndefined),
     OwmBody(<<OwmEntry(<<>>, <<3>>)>>, DatesUndefined),
     OwmBody(<<OwmEntry(<<Hour(1)>>, <<>>)>>, DatesUndefined),
     OwmBody(OwmCurrent, DatesUndefined),
     OwmBody(OwmCurrent, DatesList(<<>>)),
     OwmBody(OwmCurrent, DatesList(<<OwmEntry(<<Hour(12)>>, <<5>>)>>)),
     OwmBody(OwmCurrent, DatesList(<<OwmEntry(<<>>, <<5>>)>>)),
     OwmBody(OwmCurrent, DatesList(<<OwmEntry(<<Hour(12)>>, <<>>)>>)),
     OwmBody(OwmCurrent, DatesList(<<OwmEntry(<<Hour(12)>>, <<2>>),
                                     OwmEntry(<<Hour(36)>>, <<5>>)>>))}

OwmResponses ==
    {Rejected, Resolved(500, OwmGarbage)}
        \cup {Resolved(200, b) : b \in OwmBodies}

\* data.daily && data.daily.length > 0
HasDaily(body) == body.daily.kind = "list" /\ Len(body.daily.items) > 0

\* the returned object
UVIndexOf(body) ==
    LET currentTime == ToISOString(body.current[1].dt[1] * 1000)
        today == body.daily.items[1]
    IN
    [uv          |-> body.current[1].uvi,
     uv_time     |-> currentTime,
     uv_max      |-> IF HasDaily(body) THEN today.uvi ELSE <<0>>,
     uv_max_time |-> IF HasDaily(body) THEN ToISOString(today.dt[1] * 1000)
                     ELSE currentTime,
     ozone       |-> <<>>,
     safe_exposure_time |-> [st \in 1..6 |-> <<>>]]

\* catch (error) { console.error(...); return null; }
UVIndexCatch == AdReturn(<<>>)

\* the call up to await fetch(...)
GetUVIndex(loc) == AdStart("getUVIndex", loc)

\* await fetch(...) completes; then if (!response.ok) throw
UVIndexFetched(resp) ==
    /\ ad.kind = "getUVIndex"
    /\ ad.pc = "awaitFetch"
    /\ IF resp.st = "rejected" \/ ~Ok(resp)
       THEN UVIndexCatch
       ELSE /\ ad' = [ad EXCEPT !.pc = "awaitJson", !.resp = <<resp>>]
            /\ UNCHANGED <<locVars, meteoVars, sev, comp, mdisp, cityCalls>>

\* await response.json() completes; the rest of the function
UVIndexJson ==
    /\ ad.kind = "getUVIndex"
    /\ ad.pc = "awaitJson"
    /\ LET body == ad.resp[1].body IN
       IF body.text # "json"
       THEN UVIndexCatch
       ELSE IF body.null \/ body.current = <<>>
       THEN UVIndexCatch          \* data.current.dt of null or undefined
       ELSE IF body.current[1].dt = <<>>
       THEN UVIndexCatch          \* toISOString of an invalid date
       ELSE IF HasDaily(body) /\ body.daily.items[1].dt = <<>>
       THEN UVIndexCatch          \* toISOString of an invalid date
       ELSE AdReturn(<<UVIndexOf(body)>>)

----------------------------------------------------------------------------
(* getCopernicusUVIndex: the WAQI service *)

\* A body of the WAQI API.  status: body.status.  data: body.data.
WaqiGarbage == [text |-> "garbage", null |-> TRUE, status |-> "", data |-> <<>>]

WaqiNull == [text |-> "json", null |-> TRUE, status |-> "", data |-> <<>>]

WaqiBody(status, data) ==
    [text |-> "json", null |-> FALSE, status |-> status, data |-> data]

\* the data of the station lookup
StationData == <<[idx |-> 1]>>

GeoBodies ==
    {WaqiGarbage, WaqiNull, WaqiBody("error", <<>>), WaqiBody("ok", <<>>),
     WaqiBody("ok", StationData)}

GeoResponses ==
    {Rejected, Resolved(500, WaqiGarbage)}
        \cup {Resolved(200, b) : b \in GeoBodies}

\* a date string: ms is what new Date(string) parses it to, absent when the
\* string is not a date
DateString(ms) == [parsed |-> ms]

\* an element of data.forecast.daily.uvi, of data.forecast.hourly.uvi and of
\* data.attributions; a leaf may be missing
DailyUvi(avg, max, day) == [avg |-> avg, max |-> max, day |-> day]

HourlyUvi(t, v) == [t |-> t, v |-> v]

Attribution(name) == [name |-> name]

\* The data of a station.  uvi: data.iaqi.uvi, absent when data.iaqi or
\* data.iaqi.uvi is falsy.  iso: data.time.iso, absent when data.time or
\* data.time.iso is falsy.  daily, hourly: data.forecast.daily.uvi and
\* data.forecast.hourly.uvi, undefined when a link of the path is falsy.
\* attributions: data.attributions.
BareStation ==
    [uvi |-> <<>>, iso |-> <<>>, daily |-> DatesUndefined,
     hourly |-> DatesUndefined, attributions |-> DatesUndefined]

StationBodies ==
    {BareStation,
     [BareStation EXCEPT !.uvi = <<[v |-> <<6>>]>>,
                         !.iso = <<ToISOString(Hour(1) * 1000)>>,
                         !.attributions = DatesList(<<Attribution(<<"CAMS">>),
                                                      Attribution(<<"EEA">>)>>)],
     [BareStation EXCEPT !.uvi = <<[v |-> <<>>]>>,
                         !.attributions = DatesList(<<Attribution(<<"">>)>>)],
     [BareStation EXCEPT !.daily = DatesList(<<DailyUvi(<<0>>, <<7>>,
                                                  <<DateString(<<Hour(24) * 1000>>)>>)>>),
                         !.attributions = DatesList(<<Attribution(<<>>)>>)],
     [BareStation EXCEPT !.daily = DatesList(<<DailyUvi(<<4>>, <<7>>, <<>>)>>),
                         !.attributions = DatesList(<<>>)],
     [BareStation EXCEPT !.daily = DatesList(<<DailyUvi(<<>>, <<>>,
                                                  <<DateString(<<>>)>>)>>)],
     [BareStation EXCEPT !.daily = DatesList(<<>>),
                         !.hourly = DatesList(<<HourlyUvi(<<DateString(<<Hour(1) * 1000>>)>>, <<2>>),
                                                HourlyUvi(<<DateString(<<Hour(2) * 1000>>)>>, <<5>>)>>)],
     [BareStation EXCEPT !.daily = DatesObject, !.hourly = DatesList(<<>>)],
     [BareStation EXCEPT !.hourly = DatesObject],
     [BareStation EXCEPT !.hourly = DatesList(<<HourlyUvi(<<>>, <<2>>)>>)]}

DetailBodies ==
    {WaqiGarbage, WaqiNull, WaqiBody("error", <<>>), WaqiBody("ok", <<>>)}
        \cup {WaqiBody("ok", <<d>>) : d \in StationBodies}

DetailResponses ==
    {Rejected, Resolved(500, WaqiGarbage)}
        \cup {Resolved(200, b) : b \in DetailBodies}

\* body.status === "ok" && body.data
HasStation(body) == body.status = "ok" /\ body.data # <<>>

\* data.forecast.daily.uvi[0], when it is truthy
Today(d) ==
    IF d.daily.kind = "list" /\ Len(d.daily.items) > 0
    THEN <<d.daily.items[1]>> ELSE <<>>

\* a || b for numbers that may be undefined: a when a is truthy
OrElse(a, b) == IF a # <<>> /\ a[1] # 0 THEN a ELSE b

\* new Date(x).toISOString() throws: x is undefined or not a date
InvalidDate(x) == x = <<>> \/ x[1].parsed = <<>>

\* some new Date(...).toISOString() of the function throws
DetailThrows(d) ==
    \/ /\ d.uvi = <<>>
       /\ Today(d) # <<>>
       /\ Today(d)[1].day # <<>>
       /\ InvalidDate(Today(d)[1].day)
    \/ /\ d.hourly.kind = "object"        \* hourlyUvi.map is not a function
    \/ /\ d.hourly.kind = "list"
       /\ \E i \in 1..Len(d.hourly.items) : InvalidDate(d.hourly.items[i].t)

\* hourlyUvi.map(item => ({time: new Date(item.t).toISOString(),
\*                          uvIndex: item.v}))
MapHourly(items) ==
    [i \in 1..Len(items) |->
        [time |-> ToISOString(items[i].t[1].parsed[1]), uvIndex |-> items[i].v]]

\* Mutant: the label does not follow the attributions of the body.
CopernicusSourceConstant(d) ==
    <<"WAQI (with data from Copernicus and other sources)">>

\* data.attributions && data.attributions.length > 0
\*     ? data.attributions[0].name : "WAQI (with data from ...)"
CopernicusSource(d) ==
    IF d.attributions.kind = "list" /\ Len(d.attributions.items) > 0
    THEN d.attributions.items[1].name
    ELSE <<"WAQI (with data from Copernicus and other sources)">>

\* the returned object; t is new Date() at the time of the call
CopernicusOf(d, t) ==
    LET today == Today(d) IN
    [uvIndex   |-> IF d.uvi # <<>> THEN d.uvi[1].v
                   ELSE IF d.daily.kind # "undefined" /\ today # <<>>
                   THEN OrElse(today[1].avg, OrElse(today[1].max, <<0>>))
                   ELSE <<0>>,
     timestamp |-> IF d.uvi # <<>>
                   THEN (IF d.iso # <<>> THEN d.iso[1] ELSE ToISOString(t))
                   ELSE IF d.daily.kind # "undefined" /\ today # <<>>
                           /\ today[1].day # <<>>
                   THEN ToISOString(today[1].day[1].parsed[1])
                   ELSE ToISOString(t),
     forecastData |-> IF d.hourly.kind # "undefined"
                      THEN <<[hourly |-> MapHourly(d.hourly.items)]>>
                      ELSE <<>>,
     source    |-> CopernicusSource(d)]

\* catch (error) { console.error(...); return null; }
CopernicusCatch == AdReturn(<<>>)

\* the call up to the first await fetch(...)
GetCopernicusUVIndex(loc) == AdStart("getCopernicusUVIndex", loc)

\* the station lookup completes; then if (!geoResponse.ok) throw
CopernicusGeoFetched(resp) ==
    /\ ad.kind = "getCopernicusUVIndex"
    /\ ad.pc = "awaitFetch"
    /\ IF resp.st = "rejected" \/ ~Ok(resp)
       THEN CopernicusCatch
       ELSE /\ ad' = [ad EXCEPT !.pc = "awaitJson", !.resp = <<resp>>]
            /\ UNCHANGED <<locVars, meteoVars, sev, comp, mdisp, cityCalls>>

\* await geoResponse.json() completes; the second fetch is issued when a
\* station was found, otherwise the function returns null
CopernicusGeoJson ==
    /\ ad.kind = "getCopernicusUVIndex"
    /\ ad.pc = "awaitJson"
    /\ LET body == ad.resp[1].body IN
       IF body.text # "json" \/ body.null
       THEN CopernicusCatch       \* geoData.status of null
       ELSE IF ~HasStation(body)
       THEN AdReturn(<<>>)
       ELSE /\ ad' = [ad EXCEPT !.pc = "awaitDetailFetch"]
            /\ UNCHANGED <<locVars, meteoVars, sev, comp, mdisp, cityCalls>>

\* the detail fetch completes; then if (!detailResponse.ok) throw
CopernicusDetailFetched(resp) ==
    /\ ad.kind = "getCopernicusUVIndex"
    /\ ad.pc = "awaitDetailFetch"
    /\ IF resp.st = "rejected" \/ ~Ok(resp)
       THEN CopernicusCatch
       ELSE /\ ad' = [ad EXCEPT !.pc = "awaitDetailJson", !.detail = <<resp>>]
            /\ UNCHANGED <<locVars, meteoVars, sev, comp, mdisp, cityCalls>>

\* await detailResponse.json() completes; the rest of the function
CopernicusDetailJson ==
    /\ ad.kind = "getCopernicusUVIndex"
    /\ ad.pc = "awaitDetailJson"
    /\ LET body == ad.detail[1].body IN
       IF body.text # "json" \/ body.null
       THEN CopernicusCatch       \* detailData.status of null
       ELSE IF ~HasStation(body)
       THEN AdReturn(<<>>)
       ELSE IF DetailThrows(body.data[1])
       THEN CopernicusCatch
       ELSE AdReturn(<<CopernicusOf(body.data[1], now)>>)

----------------------------------------------------------------------------
(* The display components over the services without module state:
   CopernicusUVDisplay, UVIndexDisplay, UVIndexServiceTest *)

\* the service function each component fetches with
ServiceOf(kind) ==
    CASE kind = "CopernicusUVDisplay" -> "getCopernicusUVIndex"
      [] kind = "UVIndexDisplay" -> "getUVIndex"
      [] kind = "UVIndexServiceTest" -> "getUVIndexData"

\* the message of the Error thrown when the service returns null
NoDataMessage(kind) ==
    CASE kind = "CopernicusUVDisplay" -> "Unable to fetch Copernicus UV index data"
      [] kind = "UVIndexDisplay" -> "Unable to fetch UV index data"
      [] kind = "UVIndexServiceTest" -> "Unable to fetch UV index data"

\* the mock data of demo mode
DemoData(kind) ==
    CASE kind = "CopernicusUVDisplay" ->
             [demo |-> TRUE, source |-> "Copernicus/CAMS (Demo Data)"]
      [] kind = "UVIndexDisplay" -> [demo |-> TRUE, source |-> ""]

\* the components and the values useDemoMode can have in each
ComponentKinds ==
    {<<"CopernicusUVDisplay", FALSE>>, <<"CopernicusUVDisplay", TRUE>>,
     <<"UVIndexDisplay", FALSE>>, <<"UVIndexDisplay", TRUE>>,
     <<"UVIndexServiceTest", FALSE>>}

\* the state of a component before it is mounted: the useState defaults.
\* geo is history: what became of the geolocation request.
Unmounted ==
    [kind |-> "none", demo |-> FALSE, pc |-> "unmounted", loading |-> TRUE,
     error |-> <<>>, uvData |-> <<>>, location |-> <<>>, geo |-> "none"]

\* catch (err) { setError(err instanceof Error ? err.message : "An unknown
\* error occurred"); setLoading(false); }, the latter in the finally block
\* of UVIndexServiceTest; msg is absent when err is not an Error
FetchDataCatch(c, msg) ==
    [c EXCEPT !.pc = "settled",
              !.error = IF msg # <<>> THEN msg
                        ELSE <<"An unknown error occurred">>,
              !.loading = FALSE]

\* the component mounts and its effect runs fetchData up to
\* await getUserLocation(); without navigator.geolocation the promise is
\* already rejected with an Error
Mount(kind, demo) ==
    /\ comp.pc = "unmounted"
    /\ IF ~geoSupported
       THEN comp' = FetchDataCatch(
                [Unmounted EXCEPT !.kind = kind, !.demo = demo,
                                  !.geo = "unsupported"],
                <<"Geolocation is not supported by your browser">>)
       ELSE comp' = [Unmounted EXCEPT !.kind = kind, !.demo = demo,
                                      !.pc = "awaitLocation", !.geo = "pending"]
    /\ UNCHANGED <<locVars, meteoVars, ad, sev, mdisp, cityCalls>>

\* the success callback resolves the promise: setLocation, then the demo
\* timer is set or the service is called
FetchDataLocated(pos) ==
    /\ comp.pc = "awaitLocation"
    /\ IF comp.demo
       THEN /\ comp' = [comp EXCEPT !.location = <<pos>>, !.geo = "success",
                                    !.pc = "demoTimer"]
            /\ UNCHANGED ad
       ELSE /\ comp' = [comp EXCEPT !.location = <<pos>>, !.geo = "success",
                                    !.pc = "awaitData"]
            /\ ad' = [IdleAd EXCEPT !.kind = ServiceOf(comp.kind),
                                    !.pc = "awaitFetch", !.loc = pos]
    /\ UNCHANGED <<locVars, meteoVars, sev, mdisp, cityCalls>>

\* the error callback rejects the promise with the GeolocationPositionError,
\* which is not an Error
FetchDataGeoError(code) ==
    /\ comp.pc = "awaitLocation"
    /\ comp' = FetchDataCatch([comp EXCEPT !.geo = "error"], <<>>)
    /\ UNCHANGED <<locVars, meteoVars, ad, sev, mdisp, cityCalls>>

\* setTimeout(() => { setUvData({...}); setLoading(false); }, 1000) fires
DemoTimeout ==
    /\ comp.pc = "demoTimer"
    /\ comp' = [comp EXCEPT !.pc = "settled",
                            !.uvData = <<DemoData(comp.kind)>>,
                            !.loading = FALSE]
    /\ UNCHANGED <<locVars, meteoVars, ad, sev, mdisp, cityCalls>>

\* the await of the service call completes: if (!data) throw, else
\* setUvData(data) and setLoading(false)
FetchDataReceived ==
    /\ comp.pc = "awaitData"
    /\ ad.pc = "done"
    /\ IF ad.result = <<>>
       THEN comp' = FetchDataCatch(comp, <<NoDataMessage(comp.kind)>>)
       ELSE comp' = [comp EXCEPT !.pc = "settled", !.uvData = ad.result,
                                 !.loading = FALSE]
    /\ UNCHANGED <<locVars, meteoVars, ad, sev, mdisp, cityCalls>>

----------------------------------------------------------------------------
(* getUVSeverity: the copy of the service and those of the components.
   The argument is a fixed-point number in units of 0.001. *)

\* uvIndexService.ts
GetUVSeverity(uvIndex) ==
    IF uvIndex < 3000 THEN [level |-> "Low", color |-> "bg-green-500"]
    ELSE IF uvIndex < 6000 THEN [level |-> "Moderate", color |-> "bg-yellow-500"]
    ELSE IF uvIndex < 8000 THEN [level |-> "High", color |-> "bg-orange-500"]
    ELSE IF uvIndex < 11000 THEN [level |-> "Very High", color |-> "bg-red-500"]
    ELSE [level |-> "Extreme", color |-> "bg-purple-600"]

\* MeteomaticsUVDisplay.tsx
GetUVSeverityMeteomatics(uvIndex) ==
    IF uvIndex < 3000 THEN [level |-> "Low", color |-> "bg-green-500"]
    ELSE IF uvIndex < 6000 THEN [level |-> "Moderate", color |-> "bg-yellow-500"]
    ELSE IF uvIndex < 8000 THEN [level |-> "High", color |-> "bg-orange-500"]
    ELSE IF uvIndex < 11000 THEN [level |-> "Very High", color |-> "bg-red-500"]
    ELSE [level |-> "Extreme", color |-> "bg-purple-600"]

\* Mutant: the bounds of this copy are inclusive.
GetUVSeverityCopernicusInclusive(uvIndex) ==
    IF uvIndex <= 3000 THEN [level |-> "Low", color |-> "bg-green-500"]
    ELSE IF uvIndex <= 6000 THEN [level |-> "Moderate", color |-> "bg-yellow-500"]
    ELSE IF uvIndex <= 8000 THEN [level |-> "High", color |-> "bg-orange-500"]
    ELSE IF uvIndex <= 11000 THEN [level |-> "Very High", color |-> "bg-red-500"]
    ELSE [level |-> "Extreme", color |-> "bg-purple-600"]

\* CopernicusUVDisplay.tsx
GetUVSeverityCopernicus(uvIndex) ==
    IF uvIndex < 3000 THEN [level |-> "Low", color |-> "bg-green-500"]
    ELSE IF uvIndex < 6000 THEN [level |-> "Moderate", color |-> "bg-yellow-500"]
    ELSE IF uvIndex < 8000 THEN [level |-> "High", color |-> "bg-orange-500"]
    ELSE IF uvIndex < 11000 THEN [level |-> "Very High", color |-> "bg-red-500"]
    ELSE [level |-> "Extreme", color |-> "bg-purple-600"]

\* UVIndexDisplay
GetUVSeverityUVIndexDisplay(uvIndex) ==
    IF uvIndex < 3000 THEN [level |-> "Low", color |-> "bg-green-500"]
    ELSE IF uvIndex < 6000 THEN [level |-> "Moderate", color |-> "bg-yellow-500"]
    ELSE IF uvIndex < 8000 THEN [level |-> "High", color |-> "bg-orange-500"]
    ELSE IF uvIndex < 11000 THEN [level |-> "Very High", color |-> "bg-red-500"]
    ELSE [level |-> "Extreme", color |-> "bg-purple-600"]

SeverityCopies ==
    {"uvIndexService", "MeteomaticsUVDisplay", "CopernicusUVDisplay",
     "UVIndexDisplay"}

\* no call of getUVSeverity has been made
IdleSev == [arg |-> 0, out |-> <<>>]

\* every copy is applied to the argument
Classify ==
    /\ sev.out = <<>>
    /\ sev' = [sev EXCEPT !.out =
           <<[c \in SeverityCopies |->
                 CASE c = "uvIndexService" -> GetUVSeverity(sev.arg)
                   [] c = "MeteomaticsUVDisplay" -> GetUVSeverityMeteomatics(sev.arg)
                   [] c = "CopernicusUVDisplay" -> GetUVSeverityCopernicus(sev.arg)
                   [] c = "UVIndexDisplay" -> GetUVSeverityUVIndexDisplay(sev.arg)]>>]
    /\ UNCHANGED <<locVars, meteoVars, ad, comp, mdisp, cityCalls>>

----------------------------------------------------------------------------
(* MeteomaticsUVDisplay (MeteomaticsUVDisplay.tsx) *)

\* fetchData runs of the mounted MeteomaticsUVDisplay
MaxRuns == 3

\* positions the device reports to the component: Gothenburg, and a place
\* in Stockholm a few hundred metres from the reference point
MeteoDevicePositions ==
    {[lat |-> 577089, lng |-> 119746], [lat |-> 593300, lng |-> 180700]}

\* coordinates getUserLocation hands to the component
MeteoLocations == MeteoDevicePositions \cup {DEFAULT_LOCATION}

\* const defaultLocation = { lat: 59.3293, lng: 18.0686 }
defaultLocation == [lat |-> 593293, lng |-> 180686]

Abs(x) == IF x < 0 THEN 0 - x ELSE x

\* Mutant: the coordinate is compared for equality.
IsNearDefaultExact(userLocation) ==
    /\ userLocation.lat = defaultLocation.lat
    /\ userLocation.lng = defaultLocation.lng

\* Math.abs(userLocation.lat - defaultLocation.lat) < 0.01 &&
\* Math.abs(userLocation.lng - defaultLocation.lng) < 0.01
IsNearDefault(userLocation) ==
    /\ Abs(userLocation.lat - defaultLocation.lat) < 100
    /\ Abs(userLocation.lng - defaultLocation.lng) < 100

\* the useState initial values; no fetchData run yet
MeteoUnmounted ==
    [mounted |-> FALSE, loading |-> TRUE, refreshing |-> FALSE,
     error |-> <<>>, uvData |-> <<>>, location |-> <<>>,
     usingFallbackLocation |-> FALSE, runs |-> <<>>]

\* which of the four returns of the render function is taken
MeteoView(m) ==
    IF m.loading THEN "loading"
    ELSE IF m.error # <<>> THEN "error"
    ELSE IF m.uvData = <<>> THEN "nodata"
    ELSE "data"

\* the runs of fetchData that have not reached the end of finally
RunsInFlight(m) == {r \in 1..Len(m.runs) : m.runs[r].pc # "ended"}

\* history: what the component shows when a run ends
MeteoSnapshot(m, r) ==
    [loading |-> m.loading, refreshing |-> m.refreshing, error |-> m.error,
     uvData |-> m.uvData, location |-> m.location,
     usingFallbackLocation |-> m.usingFallbackLocation,
     view |-> MeteoView(m), others |-> RunsInFlight(m) \ {r}]

\* catch (err) { setError(...) } finally { setLoading(false);
\* setRefreshing(false) }: run r ends; data is what it received, if anything
MeteoFetchDataEnd(m, r, data, msg) ==
    LET n == [m EXCEPT !.loading = FALSE, !.refreshing = FALSE,
                       !.error = IF msg # <<>> THEN msg ELSE @,
                       !.uvData = IF msg = <<>> THEN data ELSE @]
    IN [n EXCEPT !.runs[r].pc = "ended",
                 !.runs[r].data = data,
                 !.runs[r].end = <<MeteoSnapshot(n, r)>>]

\* fetchData(isRefresh) up to `await getUserLocation()`
MeteoFetchData(isRefresh) ==
    /\ Len(mdisp.runs) < MaxRuns
    /\ GetUserLocationCall
    /\ mdisp' = [mdisp EXCEPT
           !.mounted = TRUE,
           !.loading = IF ~isRefresh THEN TRUE ELSE @,
           !.refreshing = IF isRefresh THEN TRUE ELSE @,
           !.error = <<>>,
           !.usingFallbackLocation = FALSE,
           !.runs = Append(@,
               [isRefresh |-> isRefresh, pc |-> "awaitLocation",
                pid |-> locCalls'[Len(locCalls')].pid,
                loc |-> <<>>, data |-> <<>>, end |-> <<>>])]
    /\ UNCHANGED <<meteoVars, ad, sev, comp, cityCalls>>

\* useEffect(() => { fetchData(); }, [])
MeteoMount ==
    /\ ~mdisp.mounted
    /\ MeteoFetchData(FALSE)

\* the views whose button calls handleRefresh: "Try Again" in the error and
\* the no-data view, the refresh button (disabled={refreshing}) in the data
\* view
RefreshEnabled(m) ==
    \/ MeteoView(m) \in {"error", "nodata"}
    \/ MeteoView(m) = "data" /\ ~m.refreshing

\* `await getUserLocation()` completes: the fallback notice, setLocation,
\* and the call of getMeteomaticsUVIndex up to its first await
MeteoFetchDataLocated(r) ==
    /\ mdisp.runs[r].pc = "awaitLocation"
    /\ promises[mdisp.runs[r].pid].state # "pending"
    /\ IF promises[mdisp.runs[r].pid].state = "rejected"
       THEN /\ mdisp' = MeteoFetchDataEnd(mdisp, r, <<>>,
                            <<"An unknown error occurred">>)
            /\ UNCHANGED meteoVars
       ELSE LET userLocation == promises[mdisp.runs[r].pid].value[1] IN
            /\ mdisp' = [mdisp EXCEPT
                   !.usingFallbackLocation =
                       IF IsNearDefault(userLocation) THEN TRUE ELSE @,
                   !.location = <<userLocation>>,
                   !.runs[r].pc = "awaitData",
                   !.runs[r].loc = <<userLocation>>]
            /\ CallStep(r, userLocation)
    /\ UNCHANGED <<locVars, ad, sev, comp, cityCalls>>

\* Mutant: a null result is stored like a snapshot.
MeteoFetchDataReceivedNoThrow(r) ==
    /\ mdisp.runs[r].pc = "awaitData"
    /\ calls[r].pc = "done"
    /\ mdisp' = MeteoFetchDataEnd(mdisp, r, calls[r].result, <<>>)
    /\ UNCHANGED <<locVars, meteoVars, ad, sev, comp, cityCalls>>

\* `await getMeteomaticsUVIndex(userLocation)` completes: throw on null,
\* else setUvData(data); then finally
MeteoFetchDataReceived(r) ==
    /\ mdisp.runs[r].pc = "awaitData"
    /\ calls[r].pc = "done"
    /\ mdisp' = MeteoFetchDataEnd(mdisp, r, calls[r].result,
           IF calls[r].result = <<>>
           THEN <<"Unable to fetch UV index data from Meteomatics">>
           ELSE <<>>)
    /\ UNCHANGED <<locVars, meteoVars, ad, sev, comp, cityCalls>>

\* a promise reaction is queued: it runs before any timer, click, geolocation
\* callback or network event is handled
MicrotaskPending ==
    \/ \E r \in 1..Len(mdisp.runs) :
           \/ /\ mdisp.runs[r].pc = "awaitLocation"
              /\ promises[mdisp.runs[r].pid].state # "pending"
           \/ /\ mdisp.runs[r].pc = "awaitData"
              /\ calls[r].pc = "done"
    \/ \E c \in DOMAIN calls :
           /\ calls[c].pc = "awaitAll"
           /\ \/ calls[c].cur.st = "rejected" \/ calls[c].fc.st = "rejected"
              \/ calls[c].cur.st = "resolved" /\ calls[c].fc.st = "resolved"

\* a click on a button that calls handleRefresh:
\* const handleRefresh = () => { fetchData(true); }
HandleRefresh ==
    /\ ~MicrotaskPending
    /\ mdisp.mounted
    /\ RefreshEnabled(mdisp)
    /\ MeteoFetchData(TRUE)

\* the events of the service, each handled once the queued reactions have
\* run
OnTimer(g) == ~MicrotaskPending /\ TimerFire(g)

OnGeoSuccess(g, pos) == ~MicrotaskPending /\ GeoSuccess(g, pos)

OnGeoError(g, code) == ~MicrotaskPending /\ GeoError(g, code)

OnCurrentSettles(c, resp) == ~MicrotaskPending /\ CurrentSettles(c, resp)

OnForecastSettles(c, resp) == ~MicrotaskPending /\ ForecastSettles(c, resp)

OnCurrentJson(c) == ~MicrotaskPending /\ CurrentJson(c)

OnForecastJson(c) == ~MicrotaskPending /\ ForecastJson(c)

\* what the upstream answers to the component's requests
MeteoPrimaryResponses ==
    {Resolved(500, GarbageBody),
     Resolved(200, DatesBody(DatesList(<<DateEntry(<<Hour(1)>>, <<4>>)>>)))}

MeteoForecastResponses ==
    {Resolved(200, DatesBody(DatesList(<<DateEntry(<<Hour(1)>>, <<5>>)>>)))}

----------------------------------------------------------------------------
(* getCityCoordinates (uvIndexService.ts) *)

MaxCityCalls == 2

\* the own properties of the object literal `cities`
Cities ==
    [c \in {"Gothenburg", "Stockholm", "Malmö"} |->
        CASE c = "Gothenburg" ->
                 [tag |-> "LocationData", lat |-> 577089, lng |-> 119746,
                  address |-> "Gothenburg, Sweden"]
          [] c = "Stockholm" ->
                 [tag |-> "LocationData", lat |-> 593293, lng |-> 180686,
                  address |-> "Stockholm, Sweden"]
          [] c = "Malmö" ->
                 [tag |-> "LocationData", lat |-> 556050, lng |-> 130038,
                  address |-> "Malmö, Sweden"]]

\* what an object literal inherits from Object.prototype
ObjectPrototype ==
    [k \in {"constructor", "toString", "valueOf", "hasOwnProperty", "__proto__"} |->
        IF k = "__proto__" THEN [tag |-> "object", name |-> "Object.prototype"]
        ELSE [tag |-> "function", name |-> k]]

\* cities[city]: an own property, else an inherited one, else undefined
CityProperty(city) ==
    IF city \in DOMAIN Cities THEN <<Cities[city]>>
    ELSE IF city \in DOMAIN ObjectPrototype THEN <<ObjectPrototype[city]>>
    ELSE <<>>

\* cities[city] || cities["Stockholm"]; every object and function is truthy
GetCityCoordinates(city) ==
    IF CityProperty(city) # <<>> THEN CityProperty(city)[1]
    ELSE Cities["Stockholm"]

\* the strings getCityCoordinates is called with
CityNames ==
    DOMAIN Cities \cup DOMAIN ObjectPrototype
        \cup {"Uppsala", "Västerås", "gothenburg", ""}

CityCall(city) ==
    /\ Len(cityCalls) < MaxCityCalls
    /\ cityCalls' = Append(cityCalls,
           [city |-> city, result |-> GetCityCoordinates(city)])
    /\ UNCHANGED <<locVars, meteoVars, ad, sev, comp, mdisp>>

----------------------------------------------------------------------------
(* Specifications *)

AuxInit ==
    /\ ad = IdleAd
    /\ sev = IdleSev
    /\ comp = Unmounted
    /\ mdisp = <<>>
    /\ cityCalls = <<>>

LocInit ==
    /\ geoSupported \in BOOLEAN
    /\ cachedLocation = <<>>
    /\ locationPromise = <<>>
    /\ promises = <<>>
    /\ geoReqs = <<>>
    /\ locCalls = <<>>
    /\ events = 0

LocNext ==
    \/ GetUserLocation
    \/ \E r \in 1..Len(geoReqs) : TimerFire(r)
    \/ \E r \in 1..Len(geoReqs) : \E pos \in DevicePositions : GeoSuccess(r, pos)
    \/ \E r \in 1..Len(geoReqs) : \E code \in GeoErrorCodes : GeoError(r, code)

MeteoInit(budget) ==
    /\ credentials \in BOOLEAN
    /\ now = 0
    /\ ticks = 0
    /\ uvDataCache = <<>>
    /\ locationCache = <<>>
    /\ calls = [c \in {1} |-> IdleCall]
    /\ callBudget = budget
    /\ cacheSrc = <<>>
    /\ stored = [l \in CallLocations |-> <<>>]

\* the location resolver alone
LocSpecInit == LocInit /\ MeteoInit(0) /\ credentials = TRUE /\ AuxInit

LocSpecNext == LocNext

SpecLoc == LocSpecInit /\ [][LocSpecNext]_vars

\* one getMeteomaticsUVIndex call against every kind of upstream response
FetchInit ==
    LocInit /\ geoSupported = TRUE /\ MeteoInit(MaxFetchCalls) /\ AuxInit

FetchNext ==
    \/ \E c \in DOMAIN calls : \E loc \in FetchLocations : Call(c, loc)
    \/ \E c \in DOMAIN calls : \E r \in PrimaryResponses : CurrentSettles(c, r)
    \/ \E c \in DOMAIN calls : \E r \in ForecastResponses : ForecastSettles(c, r)
    \/ \E c \in DOMAIN calls : AllSettled(c)
    \/ \E c \in DOMAIN calls : CurrentJson(c)
    \/ \E c \in DOMAIN calls : ForecastJson(c)
    \/ \E d \in FetchTickSteps : Tick(d)

SpecFetch == FetchInit /\ [][FetchNext]_vars

\* a sequence of getMeteomaticsUVIndex calls sharing the cache
CacheInit ==
    LocInit /\ geoSupported = TRUE /\ MeteoInit(MaxCacheCalls) /\ AuxInit

CacheNext ==
    \/ \E c \in DOMAIN calls : \E loc \in CallLocations : Call(c, loc)
    \/ \E c \in DOMAIN calls : \E r \in CachePrimaryResponses : CurrentSettles(c, r)
    \/ \E c \in DOMAIN calls : \E r \in CacheForecastResponses : ForecastSettles(c, r)
    \/ \E c \in DOMAIN calls : AllSettled(c)
    \/ \E c \in DOMAIN calls : CurrentJson(c)
    \/ \E c \in DOMAIN calls : ForecastJson(c)
    \/ \E d \in TickSteps : Tick(d)

SpecCache == CacheInit /\ [][CacheNext]_vars

\* getMeteomaticsUVIndex invocations that overlap in time
ConcInit ==
    /\ LocInit
    /\ geoSupported = TRUE
    /\ credentials = TRUE
    /\ now = 0
    /\ ticks = 0
    /\ uvDataCache = <<>>
    /\ locationCache = <<>>
    /\ calls = [c \in ConcSlots |-> IdleCall]
    /\ callBudget = MaxConcCalls
    /\ cacheSrc = <<>>
    /\ stored = [l \in CallLocations |-> <<>>]
    /\ AuxInit

ConcNext ==
    \/ \E c \in DOMAIN calls : \E loc \in ConcLocations : Call(c, loc)
    \/ \E c \in DOMAIN calls : \E r \in ConcPrimaryResponses : CurrentSettles(c, r)
    \/ \E c \in DOMAIN calls : \E r \in ConcForecastResponses : ForecastSettles(c, r)
    \/ \E c \in DOMAIN calls : AllSettled(c)
    \/ \E c \in DOMAIN calls : CurrentJson(c)
    \/ \E c \in DOMAIN calls : ForecastJson(c)
    \/ Tick(1)

SpecConc == ConcInit /\ [][ConcNext]_vars

\* one invocation of one of the four services against every kind of
\* upstream response: getMeteomaticsUVIndex as in SpecFetch, or one of the
\* services without module state
NoMeteoCall == \A c \in DOMAIN calls : calls[c].pc = "idle"

AdaptersInit == FetchInit

AdaptersNext ==
    \/ \E c \in DOMAIN calls : \E loc \in FetchLocations :
          ad.pc = "idle" /\ Call(c, loc)
    \/ \E c \in DOMAIN calls : \E r \in PrimaryResponses : CurrentSettles(c, r)
    \/ \E c \in DOMAIN calls : \E r \in ForecastResponses : ForecastSettles(c, r)
    \/ \E c \in DOMAIN calls : AllSettled(c)
    \/ \E c \in DOMAIN calls : CurrentJson(c)
    \/ \E c \in DOMAIN calls : ForecastJson(c)
    \/ \E d \in FetchTickSteps : Tick(d)
    \/ \E loc \in FetchLocations : NoMeteoCall /\ GetUVIndexData(loc)
    \/ \E r \in FreeResponses : UVIndexDataFetched(r)
    \/ UVIndexDataJson
    \/ \E loc \in FetchLocations : NoMeteoCall /\ GetUVIndex(loc)
    \/ \E r \in OwmResponses : UVIndexFetched(r)
    \/ UVIndexJson
    \/ \E loc \in FetchLocations : NoMeteoCall /\ GetCopernicusUVIndex(loc)
    \/ \E r \in GeoResponses : CopernicusGeoFetched(r)
    \/ CopernicusGeoJson
    \/ \E r \in DetailResponses : CopernicusDetailFetched(r)
    \/ CopernicusDetailJson

SpecAdapters == AdaptersInit /\ [][AdaptersNext]_vars

\* one display component from mount until its fetchData has finished
DisplayInit == LocInit /\ MeteoInit(0) /\ credentials = TRUE /\ AuxInit

DisplayNext ==
    \/ \E k \in ComponentKinds : Mount(k[1], k[2])
    \/ \E pos \in DevicePositions : FetchDataLocated(pos)
    \/ \E code \in GeoErrorCodes : FetchDataGeoError(code)
    \/ DemoTimeout
    \/ FetchDataReceived
    \/ \E r \in FreeResponses : UVIndexDataFetched(r)
    \/ UVIndexDataJson
    \/ \E r \in OwmResponses : UVIndexFetched(r)
    \/ UVIndexJson
    \/ \E r \in GeoResponses : CopernicusGeoFetched(r)
    \/ CopernicusGeoJson
    \/ \E r \in DetailResponses : CopernicusDetailFetched(r)
    \/ CopernicusDetailJson

SpecDisplay == DisplayInit /\ [][DisplayNext]_vars

\* The same with the scheduling the platform guarantees: the demo timer
\* fires, every HTTP request settles and every continuation runs. Nothing is
\* assumed of the geolocation callbacks.
DisplayFairness ==
    /\ WF_vars(DemoTimeout)
    /\ WF_vars(FetchDataReceived)
    /\ WF_vars(\E r \in FreeResponses : UVIndexDataFetched(r))
    /\ WF_vars(UVIndexDataJson)
    /\ WF_vars(\E r \in OwmResponses : UVIndexFetched(r))
    /\ WF_vars(UVIndexJson)
    /\ WF_vars(\E r \in GeoResponses : CopernicusGeoFetched(r))
    /\ WF_vars(CopernicusGeoJson)
    /\ WF_vars(\E r \in DetailResponses : CopernicusDetailFetched(r))
    /\ WF_vars(CopernicusDetailJson)

SpecDisplayFair == SpecDisplay /\ DisplayFairness

\* getUVSeverity applied to every UV index from 0 to MaxUvMilli thousandths
SeverityInit ==
    /\ LocInit
    /\ geoSupported = TRUE
    /\ MeteoInit(0)
    /\ credentials = TRUE
    /\ ad = IdleAd
    /\ comp = Unmounted
    /\ mdisp = <<>>
    /\ cityCalls = <<>>
    /\ sev \in {[arg |-> v, out |-> <<>>] : v \in 0..MaxUvMilli}

SeverityNext == Classify

SpecSeverity == SeverityInit /\ [][SeverityNext]_vars

\* the mounted MeteomaticsUVDisplay with the caching service behind it
MeteoDisplayInit ==
    /\ LocInit
    /\ credentials = TRUE
    /\ now = 0
    /\ ticks = 0
    /\ uvDataCache = <<>>
    /\ locationCache = <<>>
    /\ calls = [c \in 1..MaxRuns |-> IdleCall]
    /\ callBudget = MaxRuns
    /\ cacheSrc = <<>>
    /\ stored = [l \in MeteoLocations |-> <<>>]
    /\ ad = IdleAd
    /\ sev = IdleSev
    /\ comp = Unmounted
    /\ mdisp = MeteoUnmounted
    /\ cityCalls = <<>>

MeteoDisplayNext ==
    \/ MeteoMount
    \/ HandleRefresh
    \/ \E r \in 1..Len(mdisp.runs) : MeteoFetchDataLocated(r)
    \/ \E r \in 1..Len(mdisp.runs) : MeteoFetchDataReceived(r)
    \/ \E g \in 1..Len(geoReqs) : OnTimer(g)
    \/ \E g \in 1..Len(geoReqs) : \E pos \in MeteoDevicePositions :
           OnGeoSuccess(g, pos)
    \/ \E g \in 1..Len(geoReqs) : \E code \in GeoErrorCodes : OnGeoError(g, code)
    \/ \E c \in DOMAIN calls : \E resp \in MeteoPrimaryResponses :
           OnCurrentSettles(c, resp)
    \/ \E c \in DOMAIN calls : \E resp \in MeteoForecastResponses :
           OnForecastSettles(c, resp)
    \/ \E c \in DOMAIN calls : AllSettled(c)
    \/ \E c \in DOMAIN calls : OnCurrentJson(c)
    \/ \E c \in DOMAIN calls : OnForecastJson(c)

SpecMeteoDisplay == MeteoDisplayInit /\ [][MeteoDisplayNext]_vars

\* The same with the scheduling the platform guarantees: an armed timer
\* fires, every HTTP request settles and every body is read, and every
\* queued continuation runs. Nothing is assumed of the geolocation callbacks
\* and of the user's clicks.
MeteoDisplayFairness ==
    /\ \A r \in 1..MaxRuns :
           /\ WF_vars(Len(mdisp.runs) >= r /\ MeteoFetchDataLocated(r))
           /\ WF_vars(Len(mdisp.runs) >= r /\ MeteoFetchDataReceived(r))
    /\ \A c \in 1..MaxRuns :
           /\ WF_vars(\E resp \in MeteoPrimaryResponses : OnCurrentSettles(c, resp))
           /\ WF_vars(\E resp \in MeteoForecastResponses : OnForecastSettles(c, resp))
           /\ WF_vars(AllSettled(c))
           /\ WF_vars(OnCurrentJson(c))
           /\ WF_vars(OnForecastJson(c))
    /\ WF_vars(\E g \in 1..Len(geoReqs) : OnTimer(g))

SpecMeteoDisplayFair == SpecMeteoDisplay /\ MeteoDisplayFairness

\* getCityCoordinates applied to sequences of city names
CitiesInit ==
    /\ LocInit
    /\ geoSupported = TRUE
    /\ MeteoInit(0)
    /\ credentials = TRUE
    /\ AuxInit

CitiesNext == \E city \in CityNames : CityCall(city)

SpecCities == CitiesInit /\ [][CitiesNext]_vars

----------------------------------------------------------------------------
(* Properties of the location resolver (checked under SpecLoc) *)

PromiseOf(i) == promises[locCalls[i].pid]

\* C1: once the 5 second bounding timer has fired before either geolocation
\* callback, the promise is resolved to DEFAULT_LOCATION, a callback arriving
\* afterwards does not overwrite cachedLocation, and every later
\* getUserLocation call returns DEFAULT_LOCATION.
C1_TimeoutIsFinal ==
    /\ \A r \in 1..Len(geoReqs) :
          geoReqs[r].first = "timer" =>
              /\ promises[geoReqs[r].pid] = FulfilledPromise(DEFAULT_LOCATION)
              /\ cachedLocation = <<DEFAULT_LOCATION>>
    /\ \A i \in 1..Len(locCalls) :
          locCalls[i].afterTimeout =>
              PromiseOf(i) = FulfilledPromise(DEFAULT_LOCATION)

\* C2: getCurrentPosition is invoked at most once; a call made while a
\* resolution is pending receives that pending promise; two calls with no
\* event between them resolve to the same coordinate.
C2_SingleSharedResolution ==
    /\ Len(geoReqs) <= 1
    /\ \A i \in 1..Len(locCalls) :
          locCalls[i].pendingAtCall # {} =>
              locCalls[i].pid \in locCalls[i].pendingAtCall
    /\ \A i \in 1..Len(locCalls) : \A j \in 1..Len(locCalls) :
          (j = i + 1 /\ locCalls[i].ev = locCalls[j].ev) =>
              PromiseOf(i) = PromiseOf(j)

\* two callers shared one pending promise, which has since been resolved
C2_Witness ==
    /\ Len(locCalls) >= 2
    /\ Len(geoReqs) = 1
    /\ locCalls[1].pid = locCalls[2].pid
    /\ locCalls[2].pendingAtCall # {}
    /\ PromiseOf(1).state = "fulfilled"

\* C3: no promise returned by getUserLocation is ever rejected; when
\* geolocation is unsupported, or the error callback settles the promise, it
\* resolves to DEFAULT_LOCATION, and when the success callback settles it, it
\* resolves to the reported position.
C3_NeverRejects ==
    /\ \A p \in 1..Len(promises) : promises[p].state # "rejected"
    /\ \A r \in 1..Len(geoReqs) :
          /\ geoReqs[r].first = "error" =>
                promises[geoReqs[r].pid] = FulfilledPromise(DEFAULT_LOCATION)
          /\ geoReqs[r].first = "success" =>
                promises[geoReqs[r].pid] =
                    FulfilledPromise(geoReqs[r].reported[1])
    /\ ~geoSupported =>
          \A p \in 1..Len(promises) :
              promises[p] = FulfilledPromise(DEFAULT_LOCATION)

\* the error callback has settled a promise that a caller holds
C3_Witness ==
    \E r \in 1..Len(geoReqs) :
        /\ geoReqs[r].first = "error"
        /\ promises[geoReqs[r].pid].state = "fulfilled"
        /\ \E i \in 1..Len(locCalls) : locCalls[i].pid = geoReqs[r].pid

----------------------------------------------------------------------------
(* Properties of getMeteomaticsUVIndex *)

\* a call that went to the network and has returned
Returned(c) == calls[c].pc = "done" /\ calls[c].issued > 0

\* the current-value response arrived with status 200 and a parsable body
PrimaryGood(c) ==
    /\ calls[c].cur.st = "resolved"
    /\ Ok(calls[c].cur)
    /\ calls[c].cur.body.text = "json"

\* forecast, maximum and time of maximum are all absent
ForecastOmitted(d) ==
    d.hourlyForecast = <<>> /\ d.maxUvIndex = <<>> /\ d.maxUvTime = <<>>

\* the current value and its time are those of the primary body
CurrentFromPrimary(c, d) ==
    LET e == CurrentEntry(calls[c].cur.body) IN
    e # <<>> => d.uvIndex = e[1].value /\ d.timestamp = e[1].date

\* C4: when the current-value request returns a non-success status the call
\* returns null, whatever the forecast response is.
C4_PrimaryStatusFailsCall ==
    \A c \in DOMAIN calls :
        (calls[c].cur.st = "resolved" /\ ~Ok(calls[c].cur)) =>
            /\ calls[c].pc \in {"awaitAll", "done"}
            /\ calls[c].pc = "done" => calls[c].result = <<>>

\* primary 500 together with a perfectly good forecast
C4_Witness ==
    \E c \in DOMAIN calls :
        /\ Returned(c)
        /\ calls[c].cur.st = "resolved" /\ calls[c].cur.status = 500
        /\ calls[c].fc.st = "resolved" /\ Ok(calls[c].fc)
        /\ Len(calls[c].fc.body.dates.items) > 0
        /\ calls[c].result = <<>>

\* C5: the two cache variables change only in the step in which a call
\* returns a snapshot it fetched; a call that ends in failure leaves both as
\* they were.
C5_FailureLeavesCache ==
    [][(uvDataCache' # uvDataCache \/ locationCache' # locationCache) =>
          \E c \in DOMAIN calls :
              /\ calls[c].pc # "done"
              /\ calls'[c].pc = "done"
              /\ calls'[c].result # <<>>
              /\ ~calls'[c].hit]_vars

\* a call has failed after going to the network while the cache held an
\* entry of an earlier call
C5_Witness ==
    \E c \in DOMAIN calls :
        /\ Returned(c)
        /\ calls[c].result = <<>>
        /\ calls[c].seen.entry # <<>>
        /\ uvDataCache = calls[c].seen.entry
        /\ locationCache = calls[c].seen.key

\* C6: primary status 200 (body parsable) and forecast status 500: the call
\* returns a snapshot without forecast, maximum and time of maximum, whose
\* current value and timestamp are those of the primary body.
C6_ForecastStatusDegrades ==
    \A c \in DOMAIN calls :
        (/\ Returned(c)
         /\ PrimaryGood(c)
         /\ calls[c].fc.st = "resolved"
         /\ ~Ok(calls[c].fc)) =>
            /\ calls[c].result # <<>>
            /\ ForecastOmitted(calls[c].result[1])
            /\ CurrentFromPrimary(c, calls[c].result[1])

\* primary 200 with a current value, forecast 500 with a series in its body
C6_Witness ==
    \E c \in DOMAIN calls :
        /\ Returned(c)
        /\ PrimaryGood(c)
        /\ CurrentEntry(calls[c].cur.body) # <<>>
        /\ calls[c].fc.st = "resolved" /\ calls[c].fc.status = 500
        /\ calls[c].fc.body.text = "json"
        /\ calls[c].result # <<>>

\* a forecast response with success status whose body cannot be parsed, or
\* whose series field is present but is not a list
ForecastMalformed(c) ==
    /\ calls[c].fc.st = "resolved"
    /\ Ok(calls[c].fc)
    /\ \/ calls[c].fc.body.text # "json"
       \/ HasDates(calls[c].fc.body) /\ calls[c].fc.body.dates.kind # "list"

\* C7: primary good and forecast malformed: the call still returns a
\* snapshot, without forecast and maximum, with the current value of the
\* primary body.
C7_MalformedForecastDegrades ==
    \A c \in DOMAIN calls :
        (Returned(c) /\ PrimaryGood(c) /\ ForecastMalformed(c)) =>
            /\ calls[c].result # <<>>
            /\ ForecastOmitted(calls[c].result[1])
            /\ CurrentFromPrimary(c, calls[c].result[1])

\* C8 as stated: after an entry was stored for a coordinate, every later call
\* for that coordinate made less than 5 minutes after the entry was stored
\* issues no request and returns that entry's snapshot.
C8_RepeatServedFromCache ==
    \A c \in DOMAIN calls :
        (/\ calls[c].pc # "idle"
         /\ calls[c].seen.prior # <<>>
         /\ calls[c].t0 - calls[c].seen.prior[1].timestamp < CACHE_DURATION) =>
            /\ calls[c].hit
            /\ calls[c].issued = 0
            /\ calls[c].result = <<calls[c].seen.prior[1].data>>

\* C8 amended: the same, provided the cache is still keyed by that
\* coordinate when the call is made.
C8_RepeatServedWhileKeyed ==
    \A c \in DOMAIN calls :
        (/\ calls[c].pc # "idle"
         /\ calls[c].seen.prior # <<>>
         /\ calls[c].seen.key = <<calls[c].loc>>
         /\ calls[c].t0 - calls[c].seen.prior[1].timestamp < CACHE_DURATION) =>
            /\ calls[c].hit
            /\ calls[c].pc = "done"
            /\ calls[c].issued = 0
            /\ calls[c].result = <<calls[c].seen.prior[1].data>>

\* a call served from an entry stored CACHE_DURATION - 1 ms earlier
C8_Witness ==
    \E c \in DOMAIN calls :
        /\ calls[c].hit
        /\ calls[c].issued = 0
        /\ calls[c].result # <<>>
        /\ calls[c].t0 - calls[c].seen.prior[1].timestamp = CACHE_DURATION - 1

\* C9: a call whose latitude or longitude differs from the coordinate the
\* cached entry was computed from, or made 5 minutes or more after the entry
\* was stored, is not served from the cache: it issues new requests.
C9_NoStaleOrForeignHit ==
    \A c \in DOMAIN calls :
        (/\ calls[c].pc # "idle"
         /\ calls[c].seen.entry # <<>>
         /\ \/ calls[c].seen.src[1].lat # calls[c].loc.lat
            \/ calls[c].seen.src[1].lng # calls[c].loc.lng
            \/ calls[c].t0 - calls[c].seen.entry[1].timestamp
                   >= CACHE_DURATION) =>
            /\ ~calls[c].hit
            /\ calls[c].issued = 2

\* a call for the cached coordinate made exactly CACHE_DURATION after the
\* entry was stored has gone to the network
C9_Witness ==
    \E c \in DOMAIN calls :
        /\ calls[c].pc # "idle"
        /\ calls[c].seen.entry # <<>>
        /\ calls[c].seen.src = <<calls[c].loc>>
        /\ calls[c].t0 - calls[c].seen.entry[1].timestamp = CACHE_DURATION
        /\ calls[c].issued = 2

\* the primary body parses but lacks data[0].coordinates[0].dates[0]
PrimaryLacksPath(c) ==
    PrimaryGood(c) /\ CurrentEntry(calls[c].cur.body) = <<>>

\* the forecast response by itself makes the call fail
ForecastAborts(c) == calls[c].fc.st = "rejected" \/ ForecastMalformed(c)

C23_MissingLeavesDefaulted ==
    \A c \in DOMAIN calls :
        (Returned(c) /\ PrimaryGood(c) /\ calls[c].result # <<>>) =>
            LET e == CurrentEntry(calls[c].cur.body)
                d == calls[c].result[1]
            IN  /\ d.uvIndex # <<>>
                /\ d.timestamp # <<>>
                /\ (e = <<>> \/ e[1].value = <<>>) => d.uvIndex = <<0>>
                /\ (e = <<>> \/ e[1].date = <<>>) =>
                       d.timestamp = <<FormatDate(calls[c].t0)>>

----------------------------------------------------------------------------
(* Properties of the four services (checked under SpecAdapters) *)

\* the greatest of the values of a non-empty series of numbers
Greatest(vals) ==
    CHOOSE m \in {vals[i] : i \in 1..Len(vals)} :
        \A i \in 1..Len(vals) : vals[i] <= m

\* getMeteomaticsUVIndex returned a snapshot built from a forecast response
\* that carried a series of at least one entry
MeteoSeriesReturned(c) ==
    /\ Returned(c)
    /\ calls[c].result # <<>>
    /\ calls[c].fc.st = "resolved"
    /\ Ok(calls[c].fc)
    /\ HasDates(calls[c].fc.body)
    /\ Len(calls[c].fc.body.dates.items) > 0

MeteoSeries(c) == calls[c].fc.body.dates.items

\* getUVIndexData returned a snapshot built from a body whose forecast had
\* at least one entry
FreeSeriesReturned ==
    /\ ad.kind = "getUVIndexData"
    /\ ad.pc = "done"
    /\ ad.result # <<>>
    /\ Len(ad.resp[1].body.forecast.items) > 0

FreeSeries == ad.resp[1].body.forecast.items

\* C11: for every forecast series with at least one entry, the maxUvIndex of
\* the snapshot returned by getMeteomaticsUVIndex and by getUVIndexData is
\* the greatest uvIndex among the entries of the series.
C11_MaxIsGreatest ==
    /\ \A c \in DOMAIN calls :
          MeteoSeriesReturned(c) =>
              calls[c].result[1].maxUvIndex =
                  <<Greatest([i \in 1..Len(MeteoSeries(c)) |->
                                 MeteoSeries(c)[i].value[1]])>>
    /\ FreeSeriesReturned =>
          ad.result[1].maxUvIndex =
              <<Greatest([i \in 1..Len(FreeSeries) |-> FreeSeries[i].uvi[1]])>>

\* getUVIndexData returned the maximum of a series whose greatest value is
\* not the last one
C11_Witness ==
    /\ FreeSeriesReturned
    /\ Len(FreeSeries) >= 2
    /\ FreeSeries[Len(FreeSeries)].uvi[1] < FreeSeries[1].uvi[1]
    /\ ad.result[1].maxUvIndex = FreeSeries[1].uvi

\* the position of the first entry that holds the greatest value
FirstMax(vals) ==
    CHOOSE i \in 1..Len(vals) :
        /\ vals[i] = Greatest(vals)
        /\ \A j \in 1..(i - 1) : vals[j] < vals[i]

\* C12: when several entries of a series share the maximum uvIndex, the
\* maxUvTime returned by getMeteomaticsUVIndex and by getUVIndexData is the
\* time of the first such entry in series order.
C12_TieTakesFirst ==
    /\ \A c \in DOMAIN calls :
          MeteoSeriesReturned(c) =>
              calls[c].result[1].maxUvTime =
                  MeteoSeries(c)[FirstMax([i \in 1..Len(MeteoSeries(c)) |->
                                              MeteoSeries(c)[i].value[1]])].date
    /\ FreeSeriesReturned =>
          ad.result[1].maxUvTime =
              FreeSeries[FirstMax([i \in 1..Len(FreeSeries) |->
                                      FreeSeries[i].uvi[1]])].time

\* C14: every call of getMeteomaticsUVIndex, getUVIndexData, getUVIndex and
\* getCopernicusUVIndex settles by resolving, to a snapshot or to null; the
\* promise it returns is never rejected.
C14_ServicesNeverReject ==
    /\ \A c \in DOMAIN calls :
          calls[c].pc \in {"idle", "awaitAll", "awaitCurrentJson",
                           "awaitForecastJson", "done"}
    /\ ad.outcome # "rejected"
    /\ ad.pc = "done" => ad.outcome = "fulfilled" /\ Len(ad.result) <= 1
    /\ ad.pc # "done" => ad.outcome = "pending"

\* getUVIndexData resolved to null after data.forecast.map threw on a body
\* without forecast
C14_Witness ==
    /\ ad.kind = "getUVIndexData"
    /\ ad.pc = "done"
    /\ ad.outcome = "fulfilled"
    /\ ad.result = <<>>
    /\ ad.resp # <<>>
    /\ ad.resp[1].body.ok
    /\ ad.resp[1].body.forecast.kind = "undefined"

\* a service without module state returned a snapshot
AdSnapshot(kind) == ad.kind = kind /\ ad.pc = "done" /\ ad.result # <<>>

\* data.attributions of the station body a Copernicus snapshot was built from
AdAttributions == ad.detail[1].body.data[1].attributions

----------------------------------------------------------------------------
(* Further properties of getMeteomaticsUVIndex (checked under SpecFetch) *)

\* the forecast response carries no series, or an empty one
SeriesEmptyOrAbsent(c) ==
    /\ calls[c].fc.st = "resolved"
    /\ \/ ~Ok(calls[c].fc)
       \/ ~HasDates(calls[c].fc.body)
       \/ /\ calls[c].fc.body.dates.kind = "list"
          /\ Len(calls[c].fc.body.dates.items) = 0

\* C13: when the forecast series is empty or absent, the snapshot returned
\* by getMeteomaticsUVIndex has maxUvIndex and maxUvTime both undefined.
C13_NoSeriesNoMax ==
    \A c \in DOMAIN calls :
        (Returned(c) /\ calls[c].result # <<>> /\ SeriesEmptyOrAbsent(c)) =>
            /\ calls[c].result[1].maxUvIndex = <<>>
            /\ calls[c].result[1].maxUvTime = <<>>

\* a snapshot was returned whose forecast is the empty list
C13_Witness ==
    \E c \in DOMAIN calls :
        /\ Returned(c)
        /\ calls[c].result # <<>>
        /\ SeriesEmptyOrAbsent(c)
        /\ calls[c].result[1].hourlyForecast = << <<>> >>
        /\ calls[c].result[1].maxUvIndex = <<>>

\* C16: the current-value and the forecast request of a call are in flight
\* at once, and when the forecast fetch rejects while the current-value
\* request returns status 200 the call still returns a snapshot, with the
\* current value and without forecast and maximum.
C16_ForecastRejectionDegrades ==
    \A c \in DOMAIN calls :
        /\ calls[c].pc = "awaitAll" => calls[c].issued = 2
        /\ (Returned(c) /\ PrimaryGood(c) /\ calls[c].fc.st = "rejected") =>
              /\ calls[c].result # <<>>
              /\ ForecastOmitted(calls[c].result[1])
              /\ CurrentFromPrimary(c, calls[c].result[1])

----------------------------------------------------------------------------
(* Properties of overlapping getMeteomaticsUVIndex calls (checked under
   SpecConc) *)

\* C15: a getMeteomaticsUVIndex call for a coordinate made while an earlier
\* call for the same coordinate is awaiting its responses issues no HTTP
\* request of its own and resolves to the snapshot the earlier call
\* resolves to.
C15_SecondCallShares ==
    \A c \in DOMAIN calls :
        calls[c].seen.pending # {} =>
            /\ calls[c].issued = 0
            /\ \A e \in calls[c].seen.pending :
                  (calls[c].pc = "done" /\ calls[e].pc = "done") =>
                      calls[c].result = calls[e].result

\* C17: in every reachable state uvDataCache and locationCache are both
\* null or both set, and the cached snapshot is the one computed from the
\* requests addressed at the coordinate held in locationCache.
C17_CachePairConsistent ==
    /\ uvDataCache = <<>> <=> locationCache = <<>>
    /\ uvDataCache # <<>> =>
          /\ cacheSrc = locationCache
          /\ stored[locationCache[1]] = uvDataCache

\* the cache holds the entry of one coordinate while a call for another
\* coordinate, started before that entry was stored, is still awaiting
C17_Witness ==
    /\ uvDataCache # <<>>
    /\ \E c \in DOMAIN calls :
          /\ calls[c].pc = "awaitAll"
          /\ calls[c].loc # locationCache[1]
          /\ calls[c].seen.entry = <<>>

----------------------------------------------------------------------------
(* Properties of the display components (checked under SpecDisplay) *)

\* C18: in a display component a geolocation failure is never surfaced as
\* an error state: the component continues with the fallback coordinate and
\* goes on to fetch UV data.  Stated for the components over the services
\* whose getUserLocation can reject: CopernicusUVDisplay, UVIndexDisplay and
\* UVIndexServiceTest.
C18_GeoFailureNotSurfaced ==
    comp.geo \in {"error", "unsupported"} =>
        /\ comp.error = <<>>
        /\ comp.location = <<DEFAULT_LOCATION>>
        /\ comp.pc \in {"demoTimer", "awaitData", "settled"}
        /\ comp.pc = "settled" => comp.uvData # <<>> \/ ad.pc = "done"

----------------------------------------------------------------------------
(* Properties of getUVSeverity (checked under SpecSeverity) *)

\* C19: for every UV index v >= 0 at precision 0.001, getUVSeverity(v) is
\* Low exactly when v < 3, Moderate exactly when 3 <= v < 6, High exactly
\* when 6 <= v < 8, Very High exactly when 8 <= v < 11 and Extreme exactly
\* when v >= 11, and every copy of getUVSeverity returns the same level and
\* colour for the same v.
C19_SeverityThresholds ==
    sev.out # <<>> =>
        LET v == sev.arg
            o == sev.out[1]
        IN
        /\ \A c \in SeverityCopies :
              /\ o[c].level = "Low" <=> v < 3000
              /\ o[c].level = "Moderate" <=> (3000 <= v /\ v < 6000)
              /\ o[c].level = "High" <=> (6000 <= v /\ v < 8000)
              /\ o[c].level = "Very High" <=> (8000 <= v /\ v < 11000)
              /\ o[c].level = "Extreme" <=> v >= 11000
        /\ \A c, d \in SeverityCopies : o[c] = o[d]

\* the classification of 11.000, the least Extreme value
C19_Witness ==
    /\ sev.out # <<>>
    /\ sev.arg = 11000
    /\ \A c \in SeverityCopies : sev.out[1][c].level = "Extreme"

\* C21: the hourlyForecast of every snapshot returned by
\* getMeteomaticsUVIndex has between 0 and 24 entries, however many entries
\* the upstream forecast response contains.
C21_ForecastAtMost24 ==
    \A c \in DOMAIN calls :
        (Returned(c) /\ calls[c].result # <<>>
            /\ calls[c].result[1].hourlyForecast # <<>>) =>
            Len(calls[c].result[1].hourlyForecast[1]) <= 24

----------------------------------------------------------------------------
(* Properties of getCityCoordinates (checked under SpecCities) *)

\* C22: getCityCoordinates(city) returns the table entry for Gothenburg,
\* Stockholm and Malmö and the Stockholm entry for every other string; the
\* result is always a location record.
C22_AlwaysLocationRecord ==
    \A i \in 1..Len(cityCalls) :
        LET c == cityCalls[i] IN
            /\ c.result.tag = "LocationData"
            /\ c.result =
                   IF c.city \in {"Gothenburg", "Stockholm", "Malmö"}
                   THEN Cities[c.city] ELSE Cities["Stockholm"]

\* getUVIndexData has handled a response with success status, ok = true and
\* a current reading but no forecast array
NowWithoutForecast ==
    /\ ad.kind = "getUVIndexData"
    /\ ad.pc = "done"
    /\ ad.resp # <<>>
    /\ Ok(ad.resp[1])
    /\ ad.resp[1].body.text = "json"
    /\ ~ad.resp[1].body.null
    /\ ad.resp[1].body.ok
    /\ ad.resp[1].body.now # <<>>
    /\ ad.resp[1].body.forecast.kind = "undefined"

\* C24: when the response of getUVIndexData has success status, ok = true
\* and a current reading but no forecast array, the call does not fail: it
\* returns a snapshot with the current value and with the forecast and the
\* daily maximum omitted.
C24_NoForecastStillSnapshot ==
    NowWithoutForecast =>
        /\ ad.result # <<>>
        /\ ad.result[1].uvIndex = ad.resp[1].body.now[1].uvi
        /\ ad.result[1].hourlyForecast = <<>>
        /\ ad.result[1].maxUvIndex = <<>>
        /\ ad.result[1].maxUvTime = <<>>

\* getUVIndex has returned a record for a response without daily entries
RecordWithoutDaily ==
    /\ AdSnapshot("getUVIndex")
    /\ ~HasDaily(ad.resp[1].body)

\* C27: when the response handled by getUVIndex has no daily entries (daily
\* absent or empty), the returned record carries no daily maximum: uv_max
\* is omitted rather than reported as 0 with the current time.
C27_NoDailyNoMax ==
    RecordWithoutDaily =>
        /\ ad.result[1].uv_max = <<>>
        /\ ad.result[1].uv_max_time # ad.result[1].uv_time

----------------------------------------------------------------------------
(* Properties of MeteomaticsUVDisplay (checked under SpecMeteoDisplay) *)

\* the runs of fetchData that have ended
EndedRuns == {r \in 1..Len(mdisp.runs) : mdisp.runs[r].pc = "ended"}

\* The device positions of this specification differ from DEFAULT_LOCATION,
\* so a run was handed DEFAULT_LOCATION exactly when getUserLocation resolved
\* through the timeout, the error callback or the unsupported branch.
ResolvedByFallback(r) == mdisp.runs[r].loc = <<DEFAULT_LOCATION>>

\* both coordinates lie less than 0.01 degrees from 59.3293 / 18.0686
WithinHundredth(loc) ==
    /\ loc.lat > 593293 - 100 /\ loc.lat < 593293 + 100
    /\ loc.lng > 180686 - 100 /\ loc.lng < 180686 + 100

\* C25 as stated: after a fetchData run completes, usingFallbackLocation is
\* true if and only if getUserLocation resolved through a fallback path
\* rather than with a device position.
C25_FlagIffFallbackPath ==
    \A r \in EndedRuns :
        mdisp.runs[r].end[1].usingFallbackLocation <=> ResolvedByFallback(r)

\* C25 amended: after a fetchData run completes, usingFallbackLocation is
\* true if and only if the coordinate last stored in location lies within
\* 0.01 degrees of the reference point in latitude and in longitude; this is
\* so after every fallback resolution, and also for a device position that
\* close to the reference point.
C25_FlagIffNearReference ==
    \A r \in EndedRuns :
        LET e == mdisp.runs[r].end[1] IN
            /\ e.location # <<>>
            /\ e.usingFallbackLocation <=> WithinHundredth(e.location[1])
            /\ ResolvedByFallback(r) => WithinHundredth(mdisp.runs[r].loc[1])

\* a run that was handed a device position ended with the notice shown
C25_Witness ==
    \E r \in EndedRuns :
        /\ mdisp.runs[r].loc # <<>>
        /\ mdisp.runs[r].loc[1] \in MeteoDevicePositions
        /\ mdisp.runs[r].end[1].location = mdisp.runs[r].loc
        /\ mdisp.runs[r].end[1].usingFallbackLocation

\* C26: whenever getMeteomaticsUVIndex returns null during a fetchData run
\* (initial or refresh), the run ends with error set, loading = false and
\* refreshing = false, and the error view is what is rendered, even if an
\* earlier run stored data.
C26_NullEndsInErrorView ==
    \A r \in EndedRuns :
        (mdisp.runs[r].loc # <<>> /\ mdisp.runs[r].data = <<>>) =>
            LET e == mdisp.runs[r].end[1] IN
                /\ e.error # <<>>
                /\ ~e.loading
                /\ ~e.refreshing
                /\ e.view = "error"

\* a refresh got null while the data of an earlier run was stored
C26_Witness ==
    \E r \in EndedRuns :
        /\ mdisp.runs[r].isRefresh
        /\ mdisp.runs[r].loc # <<>>
        /\ mdisp.runs[r].data = <<>>
        /\ mdisp.runs[r].end[1].uvData # <<>>
        /\ mdisp.runs[r].end[1].view = "error"

\* C30: for any sequence of mount, refresh and Try Again clicks, whenever at
\* least one fetchData run is in flight, loading or refreshing is true.
C30_InFlightShowsBusy ==
    RunsInFlight(mdisp) # {} => (mdisp.loading \/ mdisp.refreshing)

\* run r has ended with loading and refreshing false and with either its own
\* data or an error on display
RunTerminated(r) ==
    /\ Len(mdisp.runs) >= r
    /\ mdisp.runs[r].pc = "ended"
    /\ LET e == mdisp.runs[r].end[1] IN
           /\ ~e.loading
           /\ ~e.refreshing
           /\ \/ mdisp.runs[r].data # <<>> /\ e.uvData = mdisp.runs[r].data
              \/ e.error # <<>>

\* C29: given that every HTTP request eventually settles, every fetchData
\* run of MeteomaticsUVDisplay eventually terminates with loading = false,
\* refreshing = false and either uvData set from that run or error set, even
\* if geolocation never calls back.
C29_EveryRunTerminates ==
    \A r \in 1..MaxRuns : (Len(mdisp.runs) >= r) ~> RunTerminated(r)

\* a run has terminated although geolocation has not called back
C29_Witness ==
    \E r \in 1..Len(mdisp.runs) :
        /\ RunTerminated(r)
        /\ \E g \in 1..Len(geoReqs) :
               geoReqs[g].cb = "pending" /\ geoReqs[g].timer = "fired"

----------------------------------------------------------------------------
(* Properties of the demo mode (checked under SpecDisplayFair) *)

\* the component has left the loading state and shows the mock data
ShowsMockData ==
    /\ comp.demo
    /\ ~comp.loading
    /\ comp.error = <<>>
    /\ comp.uvData = <<DemoData(comp.kind)>>

\* C28: with useDemoMode true, CopernicusUVDisplay and UVIndexDisplay
\* eventually leave the loading state showing the mock UV data, whatever the
\* outcome of geolocation (success, error, or no callback at all).
C28_DemoEventuallyShowsMock ==
    (comp.pc # "unmounted" /\ comp.demo) ~> ShowsMockData

Init == FetchInit

Next == FetchNext

Spec == SpecFetch

====
